---- MODULE Spec2Model ----
(***************************************************************************)
(* A model of the queryscape core: the patch engine (PatchEngine.diff /    *)
(* apply), the graph patch algebra (calculatePatch / applyPatch /          *)
(* invertPatch), the two session classes (GraphSession, SessionManager),   *)
(* the limits enforcer and the two caches (LRUCache, CacheManager).        *)
(*                                                                         *)
(* Arrays are sequences.  A JavaScript Map keyed by entity id is the       *)
(* sequence of its values in insertion order.  A properties object is the  *)
(* sequence of its <<key, value>> entries in insertion order.              *)
(***************************************************************************)
EXTENDS Integers, Sequences, FiniteSets, TLC

VARIABLES
    arg,            \* inputs of the pure function under check
    ret,            \* its result ("undefined" before the call)
    state,          \* GraphSession.state
    patchHistory,   \* GraphSession.patchHistory
    undoStack,      \* GraphSession.undoStack
    limiter,        \* GraphSession.limiter: [nodeCount, edgeCount]
    lru,            \* GraphSession.cache: [cache, stats]
    connector,      \* GraphSession.connector
    graph,          \* SessionManager.graph
    queryCount,     \* SessionManager.queryCount
    cm,             \* CacheManager: [cache, hits, misses, evictions, accessCounter]
    now,            \* Date.now()
    call            \* the last call and its outcome

vars == <<arg, ret, state, patchHistory, undoStack, limiter, lru, connector,
          graph, queryCount, cm, now, call>>

Undefined == "undefined"

(***************************************************************************)
(* Sequences, Maps and property objects                                    *)
(***************************************************************************)
SeqMap(F(_), s) == [i \in DOMAIN s |-> F(s[i])]

Range(s) == {s[i] : i \in DOMAIN s}

\* Sequences over S of length at most n.
SeqsUpTo(S, n) == UNION {[1..k -> S] : k \in 0..n}

\* Map.prototype.has / get / set / delete on a Map keyed by the values' id.
MapHas(m, id) == \E i \in DOMAIN m : m[i].id = id

MapGet(m, id) ==
    IF MapHas(m, id) THEN m[CHOOSE i \in DOMAIN m : m[i].id = id] ELSE Undefined

MapSet(m, e) ==
    IF MapHas(m, e.id)
    THEN [i \in DOMAIN m |-> IF m[i].id = e.id THEN e ELSE m[i]]
    ELSE Append(m, e)

MapDelete(m, id) == SelectSeq(m, LAMBDA e : e.id # id)

RECURSIVE MapSetAll(_, _)
MapSetAll(m, list) ==
    IF list = <<>> THEN m ELSE MapSetAll(MapSet(m, Head(list)), Tail(list))

\* new Map(list.map((x) => [x.id, x]))
MapFrom(list) == MapSetAll(<<>>, list)

\* obj[key] on a properties object.
PropGet(p, k) ==
    IF \E i \in DOMAIN p : p[i][1] = k
    THEN p[CHOOSE i \in DOMAIN p : p[i][1] = k][2]
    ELSE Undefined

PropSet(p, kv) ==
    IF \E i \in DOMAIN p : p[i][1] = kv[1]
    THEN [i \in DOMAIN p |-> IF p[i][1] = kv[1] THEN kv ELSE p[i]]
    ELSE Append(p, kv)

\* { ...a, ...b } that keeps nothing of a.
PropSpreadReplaces(a, b) == b

\* { ...a, ...b }
RECURSIVE PropSpread(_, _)
PropSpread(a, b) ==
    IF b = <<>> THEN a ELSE PropSpread(PropSet(a, Head(b)), Tail(b))

\* The properties object as a key -> value mapping (entry order forgotten).
PropMap(p) == {p[i] : i \in DOMAIN p}

\* A primitive property value is the text of its JavaScript literal ("1",
\* "null", "NaN", ...).  JSON.stringify of a primitive: NaN is printed as null.
JSONvalue(v) == IF v = "NaN" THEN "null" ELSE v

\* JSON.stringify of an object: its entries in insertion order, each value
\* printed by JSON.stringify.  An entry is <<key, primitive>> or, for a value
\* that is itself an object, <<key, "object", entries>>.
RECURSIVE JSONstringify(_)
JSONstringify(obj) ==
    [i \in DOMAIN obj |->
        IF Len(obj[i]) = 2
        THEN <<obj[i][1], JSONvalue(obj[i][2])>>
        ELSE <<obj[i][1], "{", JSONstringify(obj[i][3]), "}">>]

(***************************************************************************)
(* patch/patch-engine.ts                                                   *)
(***************************************************************************)
\* diffProperties that reports every key of after, changed or not.
diffPropertiesReportsAll(before, after) == after

diffProperties(before, after) ==
    SelectSeq(after, LAMBDA kv :
        JSONvalue(PropGet(before, kv[1])) # JSONvalue(kv[2]))

PE_diff(before, after) ==
    LET beforeNodeMap == MapFrom(before.nodes)
        afterNodeMap  == MapFrom(after.nodes)
        beforeEdgeMap == MapFrom(before.edges)
        afterEdgeMap  == MapFrom(after.edges)
        removedNodes ==
            SeqMap(LAMBDA n : [op |-> "remove", type |-> "node", nodeId |-> n.id],
                   SelectSeq(beforeNodeMap, LAMBDA n : ~MapHas(afterNodeMap, n.id)))
        removedEdges ==
            SeqMap(LAMBDA e : [op |-> "remove", type |-> "edge", edgeId |-> e.id],
                   SelectSeq(beforeEdgeMap, LAMBDA e : ~MapHas(afterEdgeMap, e.id)))
        addedNodes ==
            SeqMap(LAMBDA n : [op |-> "add", type |-> "node", node |-> n],
                   SelectSeq(afterNodeMap, LAMBDA n : ~MapHas(beforeNodeMap, n.id)))
        addedEdges ==
            SeqMap(LAMBDA e : [op |-> "add", type |-> "edge", edge |-> e],
                   SelectSeq(afterEdgeMap, LAMBDA e : ~MapHas(beforeEdgeMap, e.id)))
        NodeDelta(n) == diffProperties(n.properties, MapGet(afterNodeMap, n.id).properties)
        EdgeDelta(e) == diffProperties(e.properties, MapGet(afterEdgeMap, e.id).properties)
        updatedNodes ==
            SeqMap(LAMBDA n : [op |-> "update", type |-> "node", nodeId |-> n.id,
                               properties |-> NodeDelta(n)],
                   SelectSeq(beforeNodeMap, LAMBDA n :
                       MapHas(afterNodeMap, n.id) /\ Len(NodeDelta(n)) > 0))
        updatedEdges ==
            SeqMap(LAMBDA e : [op |-> "update", type |-> "edge", edgeId |-> e.id,
                               properties |-> EdgeDelta(e)],
                   SelectSeq(beforeEdgeMap, LAMBDA e :
                       MapHas(afterEdgeMap, e.id) /\ Len(EdgeDelta(e)) > 0))
    IN  [operations |-> removedNodes \o removedEdges \o addedNodes \o addedEdges
                        \o updatedNodes \o updatedEdges]

\* PE_applyOp whose node removal leaves the edges alone.
PE_applyOpKeepsEdges(w, i, op) ==
    LET Err(msg) == [w EXCEPT !.errors = Append(@, [index |-> i, operation |-> op,
                                                     message |-> msg])]
    IN
    CASE op.op = "add" /\ op.type = "node" ->
           IF MapHas(w.nodeMap, op.node.id) THEN Err("already exists")
           ELSE [w EXCEPT !.nodeMap = MapSet(@, op.node), !.appliedCount = @ + 1]
      [] op.op = "add" /\ op.type = "edge" ->
           IF MapHas(w.edgeMap, op.edge.id) THEN Err("already exists")
           ELSE [w EXCEPT !.edgeMap = MapSet(@, op.edge), !.appliedCount = @ + 1]
      [] op.op = "remove" /\ op.type = "node" ->
           IF MapHas(w.nodeMap, op.nodeId)
           THEN [w EXCEPT !.nodeMap = MapDelete(@, op.nodeId),
                          !.appliedCount = @ + 1]
           ELSE Err("not found")
      [] op.op = "remove" /\ op.type = "edge" ->
           IF MapHas(w.edgeMap, op.edgeId)
           THEN [w EXCEPT !.edgeMap = MapDelete(@, op.edgeId), !.appliedCount = @ + 1]
           ELSE Err("not found")
      [] op.op = "update" /\ op.type = "node" ->
           IF MapHas(w.nodeMap, op.nodeId)
           THEN [w EXCEPT !.nodeMap = MapSet(@,
                              [MapGet(w.nodeMap, op.nodeId) EXCEPT
                                  !.properties = PropSpread(@, op.properties)]),
                          !.appliedCount = @ + 1]
           ELSE Err("not found")
      [] op.op = "update" /\ op.type = "edge" ->
           IF MapHas(w.edgeMap, op.edgeId)
           THEN [w EXCEPT !.edgeMap = MapSet(@,
                              [MapGet(w.edgeMap, op.edgeId) EXCEPT
                                  !.properties = PropSpread(@, op.properties)]),
                          !.appliedCount = @ + 1]
           ELSE Err("not found")

\* PE_applyOp whose add overwrites an entity that is already present.
PE_applyOpOverwrites(w, i, op) ==
    LET Err(msg) == [w EXCEPT !.errors = Append(@, [index |-> i, operation |-> op,
                                                     message |-> msg])]
    IN
    CASE op.op = "add" /\ op.type = "node" ->
           [w EXCEPT !.nodeMap = MapSet(@, op.node), !.appliedCount = @ + 1]
      [] op.op = "add" /\ op.type = "edge" ->
           [w EXCEPT !.edgeMap = MapSet(@, op.edge), !.appliedCount = @ + 1]
      [] op.op = "remove" /\ op.type = "node" ->
           IF MapHas(w.nodeMap, op.nodeId)
           THEN [w EXCEPT !.nodeMap = MapDelete(@, op.nodeId),
                          !.edgeMap = SelectSeq(@, LAMBDA e :
                              ~(e.source = op.nodeId \/ e.target = op.nodeId)),
                          !.appliedCount = @ + 1]
           ELSE Err("not found")
      [] op.op = "remove" /\ op.type = "edge" ->
           IF MapHas(w.edgeMap, op.edgeId)
           THEN [w EXCEPT !.edgeMap = MapDelete(@, op.edgeId), !.appliedCount = @ + 1]
           ELSE Err("not found")
      [] op.op = "update" /\ op.type = "node" ->
           IF MapHas(w.nodeMap, op.nodeId)
           THEN [w EXCEPT !.nodeMap = MapSet(@,
                              [MapGet(w.nodeMap, op.nodeId) EXCEPT
                                  !.properties = PropSpread(@, op.properties)]),
                          !.appliedCount = @ + 1]
           ELSE Err("not found")
      [] op.op = "update" /\ op.type = "edge" ->
           IF MapHas(w.edgeMap, op.edgeId)
           THEN [w EXCEPT !.edgeMap = MapSet(@,
                              [MapGet(w.edgeMap, op.edgeId) EXCEPT
                                  !.properties = PropSpread(@, op.properties)]),
                          !.appliedCount = @ + 1]
           ELSE Err("not found")

\* One turn of the loop of PatchEngine.apply: operation number i on the working maps.
PE_applyOp(w, i, op) ==
    LET Err(msg) == [w EXCEPT !.errors = Append(@, [index |-> i, operation |-> op,
                                                     message |-> msg])]
    IN
    CASE op.op = "add" /\ op.type = "node" ->
           IF MapHas(w.nodeMap, op.node.id) THEN Err("already exists")
           ELSE [w EXCEPT !.nodeMap = MapSet(@, op.node), !.appliedCount = @ + 1]
      [] op.op = "add" /\ op.type = "edge" ->
           IF MapHas(w.edgeMap, op.edge.id) THEN Err("already exists")
           ELSE [w EXCEPT !.edgeMap = MapSet(@, op.edge), !.appliedCount = @ + 1]
      [] op.op = "remove" /\ op.type = "node" ->
           IF MapHas(w.nodeMap, op.nodeId)
           THEN [w EXCEPT !.nodeMap = MapDelete(@, op.nodeId),
                          !.edgeMap = SelectSeq(@, LAMBDA e :
                              ~(e.source = op.nodeId \/ e.target = op.nodeId)),
                          !.appliedCount = @ + 1]
           ELSE Err("not found")
      [] op.op = "remove" /\ op.type = "edge" ->
           IF MapHas(w.edgeMap, op.edgeId)
           THEN [w EXCEPT !.edgeMap = MapDelete(@, op.edgeId), !.appliedCount = @ + 1]
           ELSE Err("not found")
      [] op.op = "update" /\ op.type = "node" ->
           IF MapHas(w.nodeMap, op.nodeId)
           THEN [w EXCEPT !.nodeMap = MapSet(@,
                              [MapGet(w.nodeMap, op.nodeId) EXCEPT
                                  !.properties = PropSpread(@, op.properties)]),
                          !.appliedCount = @ + 1]
           ELSE Err("not found")
      [] op.op = "update" /\ op.type = "edge" ->
           IF MapHas(w.edgeMap, op.edgeId)
           THEN [w EXCEPT !.edgeMap = MapSet(@,
                              [MapGet(w.edgeMap, op.edgeId) EXCEPT
                                  !.properties = PropSpread(@, op.properties)]),
                          !.appliedCount = @ + 1]
           ELSE Err("not found")

\* The working maps of PatchEngine.apply after the first k operations.
RECURSIVE PE_applyLoop(_, _, _)
PE_applyLoop(g, ops, k) ==
    IF k = 0
    THEN [nodeMap |-> MapFrom(g.nodes), edgeMap |-> MapFrom(g.edges),
          errors |-> <<>>, appliedCount |-> 0]
    ELSE PE_applyOp(PE_applyLoop(g, ops, k - 1), k - 1, ops[k])

PE_apply(g, patch) ==
    LET w == PE_applyLoop(g, patch.operations, Len(patch.operations))
    IN  [graph  |-> [nodes |-> w.nodeMap, edges |-> w.edgeMap],
         result |-> [success |-> (Len(w.errors) = 0),
                     appliedCount |-> w.appliedCount,
                     errors |-> w.errors]]

createAddPatch(nodes, edges) ==
    [operations |->
        SeqMap(LAMBDA n : [op |-> "add", type |-> "node", node |-> n], nodes)
        \o SeqMap(LAMBDA e : [op |-> "add", type |-> "edge", edge |-> e], edges)]

createRemovePatch(nodeIds, edgeIds) ==
    [operations |->
        SeqMap(LAMBDA id : [op |-> "remove", type |-> "edge", edgeId |-> id], edgeIds)
        \o SeqMap(LAMBDA id : [op |-> "remove", type |-> "node", nodeId |-> id], nodeIds)]

(***************************************************************************)
(* patch/index.ts.  A NodePatch / EdgePatch is [operation, entity] and,    *)
(* for an update, previous (the node / previousNode, edge / previousEdge   *)
(* fields of the source).                                                  *)
(***************************************************************************)
nodesEqual(a, b) ==
    /\ a.id = b.id
    /\ Len(a.labels) = Len(b.labels)
    /\ \A i \in DOMAIN a.labels : a.labels[i] = b.labels[i]
    /\ JSONstringify(a.properties) = JSONstringify(b.properties)

edgesEqual(a, b) ==
    /\ a.id = b.id
    /\ a.source = b.source
    /\ a.target = b.target
    /\ a.type = b.type
    /\ JSONstringify(a.properties) = JSONstringify(b.properties)

\* The add / update entries of the loop of calculatePatch over the new nodes.
AddedOrUpdatedNodes(oldMap, newList) ==
    SeqMap(LAMBDA x :
               IF ~MapHas(oldMap, x.id)
               THEN [operation |-> "add", entity |-> x]
               ELSE [operation |-> "update", entity |-> x,
                     previous |-> MapGet(oldMap, x.id)],
           SelectSeq(newList, LAMBDA x :
               ~MapHas(oldMap, x.id) \/ ~nodesEqual(MapGet(oldMap, x.id), x)))

\* The add / update entries of the loop of calculatePatch over the new edges.
AddedOrUpdatedEdges(oldMap, newList) ==
    SeqMap(LAMBDA x :
               IF ~MapHas(oldMap, x.id)
               THEN [operation |-> "add", entity |-> x]
               ELSE [operation |-> "update", entity |-> x,
                     previous |-> MapGet(oldMap, x.id)],
           SelectSeq(newList, LAMBDA x :
               ~MapHas(oldMap, x.id) \/ ~edgesEqual(MapGet(oldMap, x.id), x)))

Removed(oldList, newMap) ==
    SeqMap(LAMBDA x : [operation |-> "remove", entity |-> x],
           SelectSeq(oldList, LAMBDA x : ~MapHas(newMap, x.id)))

calculatePatch(oldState, newState) ==
    [nodePatch |-> AddedOrUpdatedNodes(MapFrom(oldState.nodes), newState.nodes)
                   \o Removed(oldState.nodes, MapFrom(newState.nodes)),
     edgePatch |-> AddedOrUpdatedEdges(MapFrom(oldState.edges), newState.edges)
                   \o Removed(oldState.edges, MapFrom(newState.edges))]

RECURSIVE ApplyEntries(_, _)
ApplyEntries(m, entries) ==
    IF entries = <<>> THEN m
    ELSE LET p == Head(entries)
         IN  ApplyEntries(IF p.operation = "remove"
                          THEN MapDelete(m, p.entity.id)
                          ELSE MapSet(m, p.entity),
                          Tail(entries))

applyPatch(s, patch) ==
    [nodes |-> ApplyEntries(MapFrom(s.nodes), patch.nodePatch),
     edges |-> ApplyEntries(MapFrom(s.edges), patch.edgePatch)]

\* invertPatch with the update case left as it is (not swapped).
InvertEntryKeepsUpdate(p) ==
    CASE p.operation = "add"    -> [operation |-> "remove", entity |-> p.entity]
      [] p.operation = "remove" -> [operation |-> "add", entity |-> p.entity]
      [] p.operation = "update" -> p

InvertEntry(p) ==
    CASE p.operation = "add"    -> [operation |-> "remove", entity |-> p.entity]
      [] p.operation = "remove" -> [operation |-> "add", entity |-> p.entity]
      [] p.operation = "update" -> [operation |-> "update", entity |-> p.previous,
                                    previous |-> p.entity]

invertPatch(patch) ==
    [nodePatch |-> SeqMap(InvertEntry, patch.nodePatch),
     edgePatch |-> SeqMap(InvertEntry, patch.edgePatch)]

isPatchEmpty(patch) == Len(patch.nodePatch) = 0 /\ Len(patch.edgePatch) = 0

(***************************************************************************)
(* Graphs compared as the spec compares snapshots: by the set of entities, *)
(* the properties of each as a key -> value mapping.                       *)
(***************************************************************************)
NodeView(n) == [id |-> n.id, labels |-> n.labels, properties |-> PropMap(n.properties)]

EdgeView(e) == [id |-> e.id, source |-> e.source, target |-> e.target,
                type |-> e.type, properties |-> PropMap(e.properties)]

GraphView(g) == [nodes |-> {NodeView(n) : n \in Range(g.nodes)},
                 edges |-> {EdgeView(e) : e \in Range(g.edges)}]

UniqueIds(list) == \A i, j \in DOMAIN list : i # j => list[i].id # list[j].id

Ids(list) == {list[i].id : i \in DOMAIN list}

\* The graphs with at most maxN nodes of N and maxE edges of E, ids unique.
GraphsOver(N, E, maxN, maxE) ==
    {[nodes |-> ns, edges |-> es] :
        ns \in {s \in SeqsUpTo(N, maxN) : UniqueIds(s)},
        es \in {s \in SeqsUpTo(E, maxE) : UniqueIds(s)}}

NoProps == <<>>
K(v) == <<<<"k", v>>>>

Node(id, labels, properties) ==
    [id |-> id, labels |-> labels, properties |-> properties]

Edge(id, source, target, type, properties) ==
    [id |-> id, source |-> source, target |-> target, type |-> type,
     properties |-> properties]

\* The variables a specification does not use keep these values.
IdleFn      == arg = <<>> /\ ret = <<>>
IdleSession == /\ state = [nodes |-> <<>>, edges |-> <<>>]
               /\ patchHistory = <<>> /\ undoStack = <<>>
               /\ limiter = [nodeCount |-> 0, edgeCount |-> 0]
               /\ lru = <<>> /\ connector = Undefined
IdleManager == graph = [nodes |-> <<>>, edges |-> <<>>] /\ queryCount = 0
IdleCache   == cm = <<>>
IdleClock   == now = 0

fnVars      == <<arg, ret>>
sessionVars == <<state, patchHistory, undoStack, limiter, lru, connector>>
managerVars == <<graph, queryCount>>

(***************************************************************************)
(* SpecDiff: PatchEngine.apply(S1, PatchEngine.diff(S1, S2)) for every     *)
(* pair of graphs of the universe below.                                   *)
(***************************************************************************)
MaxDiffNodes == 2
MaxDiffEdges == 1

DiffNodes ==
    {Node("n1", l, p) : l \in {<<"A">>, <<"B">>}, p \in {NoProps, K("1"), K("2")}}
    \cup {Node("n1", <<"A">>, K("NaN")), Node("n2", <<"A">>, NoProps)}

DiffEdges ==
    {Edge("e1", "n1", "n2", "T", p) : p \in {NoProps, K("1")}}
    \cup {Edge("e1", "n2", "n2", "U", NoProps)}

DiffGraphs == GraphsOver(DiffNodes, DiffEdges, MaxDiffNodes, MaxDiffEdges)

DiffInit ==
    /\ arg \in [before : DiffGraphs, after : DiffGraphs]
    /\ ret = <<>>
    /\ call = [op |-> "none"]
    /\ IdleSession /\ IdleManager /\ IdleCache /\ IdleClock

DiffApply ==
    /\ call.op = "none"
    /\ ret' = [patch |-> PE_diff(arg.before, arg.after),
               applied |-> PE_apply(arg.before, PE_diff(arg.before, arg.after))]
    /\ call' = [op |-> "diffApply"]
    /\ UNCHANGED <<arg, sessionVars, managerVars, cm, now>>

DiffNext == DiffApply

SpecDiff == DiffInit /\ [][DiffNext]_vars

\* C1: apply(S1, diff(S1, S2)).graph is S2: the same nodes and edges, each with
\* S2's labels, endpoints, type and properties.
C1_DiffApplyYieldsAfter ==
    call.op = "diffApply" => GraphView(ret.applied.graph) = GraphView(arg.after)

\* C16: in a patch produced by PatchEngine.diff that holds a remove-node
\* operation for a node n and remove-edge operations for edges whose source or
\* target is n, each of those remove-edge operations stands before the
\* remove-node operation for n (as in the patches of createRemovePatch, which
\* lists all its edge removals first).
C16_EdgeRemovalsPrecedeNodeRemoval ==
    call.op = "diffApply" =>
        LET ops == ret.patch.operations
        IN  \A i, j \in DOMAIN ops :
                (/\ ops[i].op = "remove" /\ ops[i].type = "node"
                 /\ ops[j].op = "remove" /\ ops[j].type = "edge"
                 /\ \E k \in DOMAIN arg.before.edges :
                        /\ arg.before.edges[k].id = ops[j].edgeId
                        /\ \/ arg.before.edges[k].source = ops[i].nodeId
                           \/ arg.before.edges[k].target = ops[i].nodeId)
                   => j < i

\* C17: for every graph S with unique node ids and unique edge ids,
\* PatchEngine.diff(S, S) has zero operations.
C17_DiffOfSameIsEmpty ==
    (call.op = "diffApply" /\ arg.before = arg.after)
        => Len(ret.patch.operations) = 0

\* The diff of a graph of two nodes and an edge, with properties, against
\* itself.
C17_Witness ==
    /\ call.op = "diffApply" /\ arg.before = arg.after
    /\ Len(arg.before.nodes) = 2 /\ Len(arg.before.edges) = 1
    /\ \E i \in DOMAIN arg.before.nodes : arg.before.nodes[i].properties # NoProps
    /\ ret.patch.operations = <<>>

(***************************************************************************)
(* SpecInvert: applyPatch(applyPatch(S, P), invertPatch(P)) for every      *)
(* graph S and every patch P of the universe below that applies cleanly.   *)
(***************************************************************************)
MaxInvertNodes     == 2
MaxInvertEdges     == 1
MaxInvertNodePatch == 2
MaxInvertEdgePatch == 1

InvertNodes ==
    {Node("n1", <<"A">>, NoProps), Node("n1", <<"A">>, K("1")),
     Node("n2", <<"A">>, NoProps)}

InvertEdges ==
    {Edge("e1", "n1", "n2", "T", NoProps), Edge("e1", "n2", "n1", "T", K("1"))}

EntriesOver(E) ==
    {[operation |-> o, entity |-> x] : o \in {"add", "remove"}, x \in E}
    \cup {[operation |-> "update", entity |-> xy[1], previous |-> xy[2]] :
             xy \in {p \in E \X E : p[1].id = p[2].id}}

InvertGraphs == GraphsOver(InvertNodes, InvertEdges, MaxInvertNodes, MaxInvertEdges)

InvertPatches ==
    [nodePatch : SeqsUpTo(EntriesOver(InvertNodes), MaxInvertNodePatch),
     edgePatch : SeqsUpTo(EntriesOver(InvertEdges), MaxInvertEdgePatch)]

\* Adds target ids absent from the list, removes and updates ids present in it.
EntriesApplyCleanly(list, entries) ==
    \A i \in DOMAIN entries :
        (entries[i].operation = "add") = ~MapHas(list, entries[i].entity.id)

AppliesCleanly(S, P) ==
    /\ EntriesApplyCleanly(S.nodes, P.nodePatch)
    /\ EntriesApplyCleanly(S.edges, P.edgePatch)

\* Every update carries, as previous, the entity S holds under that id.
EntriesCarryPrevious(list, entries) ==
    \A i \in DOMAIN entries :
        entries[i].operation = "update"
            => entries[i].previous = MapGet(list, entries[i].entity.id)

UpdatesCarryPrevious(S, P) ==
    /\ EntriesCarryPrevious(S.nodes, P.nodePatch)
    /\ EntriesCarryPrevious(S.edges, P.edgePatch)

\* Every remove carries the entity S holds under that id.
EntriesCarryRemoved(list, entries) ==
    \A i \in DOMAIN entries :
        entries[i].operation = "remove"
            => entries[i].entity = MapGet(list, entries[i].entity.id)

RemovesCarryEntity(S, P) ==
    /\ EntriesCarryRemoved(S.nodes, P.nodePatch)
    /\ EntriesCarryRemoved(S.edges, P.edgePatch)

InvertInit ==
    /\ arg \in {a \in [state : InvertGraphs, patch : InvertPatches] :
                   AppliesCleanly(a.state, a.patch)}
    /\ ret = <<>>
    /\ call = [op |-> "none"]
    /\ IdleSession /\ IdleManager /\ IdleCache /\ IdleClock

ApplyThenInvert ==
    /\ call.op = "none"
    /\ ret' = [applied |-> applyPatch(arg.state, arg.patch),
               undone  |-> applyPatch(applyPatch(arg.state, arg.patch),
                                      invertPatch(arg.patch))]
    /\ call' = [op |-> "applyThenInvert"]
    /\ UNCHANGED <<arg, sessionVars, managerVars, cm, now>>

InvertNext == ApplyThenInvert

SpecInvert == InvertInit /\ [][InvertNext]_vars

SameEntities(g, h) ==
    Range(g.nodes) = Range(h.nodes) /\ Range(g.edges) = Range(h.edges)

\* C2 as stated: for P applying cleanly to S with updates carrying the previous
\* entity, undoing P after applying it gives exactly the nodes and edges of S.
C2_UndoRoundTripAsStated ==
    (call.op = "applyThenInvert" /\ UpdatesCarryPrevious(arg.state, arg.patch))
        => SameEntities(ret.undone, arg.state)

\* C2 amended: the same, for patches whose removes too carry the entity S holds.
C2_UndoRoundTrip ==
    (/\ call.op = "applyThenInvert"
     /\ UpdatesCarryPrevious(arg.state, arg.patch)
     /\ RemovesCarryEntity(arg.state, arg.patch))
        => SameEntities(ret.undone, arg.state)

HasEntry(entries, o) == \E i \in DOMAIN entries : entries[i].operation = o

\* A patch with an add, an update and a remove has been applied and undone.
C2_Witness ==
    /\ call.op = "applyThenInvert"
    /\ UpdatesCarryPrevious(arg.state, arg.patch)
    /\ RemovesCarryEntity(arg.state, arg.patch)
    /\ HasEntry(arg.patch.nodePatch, "update")
    /\ HasEntry(arg.patch.nodePatch, "remove")
    /\ HasEntry(arg.patch.edgePatch, "add")
    /\ ~SameEntities(ret.applied, arg.state)
    /\ SameEntities(ret.undone, arg.state)

(***************************************************************************)
(* cache/index.ts: LRUCache and generateQueryCacheKey.  The Map of the     *)
(* cache is the sequence of its entries, oldest first; an entry's id is    *)
(* its key.                                                                *)
(***************************************************************************)
LRU_new == [cache |-> <<>>,
            stats |-> [hits |-> 0, misses |-> 0, evictions |-> 0, size |-> 0]]

\* LRUCache.get at time t: the cache afterwards and the value returned.
LRU_get(c, config, key, t) ==
    IF ~MapHas(c.cache, key)
    THEN [lru |-> [c EXCEPT !.stats.misses = @ + 1], value |-> Undefined, hit |-> FALSE]
    ELSE LET entry == MapGet(c.cache, key)
         IN  IF t - entry.timestamp > config.ttlMs
             THEN [lru |-> [c EXCEPT !.cache = MapDelete(@, key),
                                     !.stats.size = @ - 1,
                                     !.stats.misses = @ + 1],
                   value |-> Undefined, hit |-> FALSE]
             ELSE [lru |-> [c EXCEPT
                              !.cache = Append(MapDelete(@, key),
                                               [entry EXCEPT !.accessCount = @ + 1]),
                              !.stats.hits = @ + 1],
                   value |-> entry.value, hit |-> TRUE]

\* LRUCache.set at time t.
LRU_set(c, config, key, value, t) ==
    LET made ==
            IF MapHas(c.cache, key)
            THEN [c EXCEPT !.cache = MapDelete(@, key)]
            ELSE IF Len(c.cache) >= config.maxSize /\ Len(c.cache) > 0
            THEN [c EXCEPT !.cache = Tail(@),
                           !.stats.evictions = @ + 1,
                           !.stats.size = @ - 1]
            ELSE c
    IN  [made EXCEPT !.cache = Append(@, [id |-> key, value |-> value,
                                          timestamp |-> t, accessCount |-> 1]),
                     !.stats.size = @ + 1]

LRU_clear(c) == [c EXCEPT !.cache = <<>>, !.stats.size = 0]

\* The place of a parameter key in the order Array.prototype.sort gives.
KeyRank(k) ==
    CASE k = "count"       -> 0
      [] k = "labelFilter" -> 1
      [] k = "limit"       -> 2
      [] k = "nodeId"      -> 3
      [] k = "strategy"    -> 4
      [] k = "type"        -> 5

\* Object.keys(params).sort().reduce(...): the entries in sorted key order.
RECURSIVE SortedParams(_)
SortedParams(params) ==
    IF params = <<>> THEN <<>>
    ELSE LET least == CHOOSE i \in DOMAIN params :
                          \A j \in DOMAIN params :
                              KeyRank(params[i][1]) <= KeyRank(params[j][1])
         IN  <<params[least]>>
             \o SortedParams(SelectSeq(params, LAMBDA kv : kv[1] # params[least][1]))

generateQueryCacheKey(connectorId, queryType, params) ==
    <<connectorId, ":", queryType, ":", JSONstringify(SortedParams(params))>>

(***************************************************************************)
(* limits/index.ts: LimitsEnforcer                                         *)
(***************************************************************************)
\* checkNodeLimit that allows every addition.
checkNodeLimitAllowsAll(l, config, additionalNodes) ==
    [allowed |-> TRUE,
     currentValue |-> l.nodeCount, maxValue |-> config.maxNodes,
     limitType |-> "maxNodes"]

checkNodeLimit(l, config, additionalNodes) ==
    [allowed |-> l.nodeCount + additionalNodes <= config.maxNodes,
     currentValue |-> l.nodeCount, maxValue |-> config.maxNodes,
     limitType |-> "maxNodes"]

checkEdgeLimit(l, config, additionalEdges) ==
    [allowed |-> l.edgeCount + additionalEdges <= config.maxEdges,
     currentValue |-> l.edgeCount, maxValue |-> config.maxEdges,
     limitType |-> "maxEdges"]

\* updateCounts that never counts the edges.
updateCountsForgetsEdges(nodes, edges) == [nodeCount |-> nodes, edgeCount |-> 0]

updateCounts(nodes, edges) == [nodeCount |-> nodes, edgeCount |-> edges]

(***************************************************************************)
(* session/index.ts: GraphSession.  A call is one step; the connector is   *)
(* the environment: its answer to executeQuery is an input of the step.    *)
(***************************************************************************)
SessionMaxNodes == 2
SessionMaxEdges == 1
SessionCacheTtl == 1
QueryCacheMaxSize == 100
MaxHistory == 2
MaxLookups == 2
MaxTime == 2
MaxBatch == 1

sessionConfig == [maxNodes |-> SessionMaxNodes, maxEdges |-> SessionMaxEdges,
                  cacheTtlMs |-> SessionCacheTtl]

queryCacheConfig == [maxSize |-> QueryCacheMaxSize, ttlMs |-> sessionConfig.cacheTtlMs]

EmptyGraph == [nodes |-> <<>>, edges |-> <<>>]

\* The nodes and edges the caller passes to addNodes / addEdges.
SessionNodes ==
    {Node("n1", <<"A">>, K("NaN")), Node("n1", <<"A">>, K("null")),
     Node("n2", <<"A">>, NoProps)}

SessionEdges ==
    {Edge("e1", "n1", "n2", "T", NoProps), Edge("e2", "n2", "n2", "T", NoProps)}

SessionQueries == {<<<<"type", "getNode">>, <<"nodeId", "n1">>>>}

SessionConnectors == {"c1"}

\* What connector.executeQuery(query) may answer: a rejection or a result.
ConnectorResponses ==
    {[rejects |-> TRUE, data |-> EmptyGraph]}
    \cup {[rejects |-> FALSE, data |-> d] : d \in
            {[nodes |-> <<Node("n1", <<"A">>, K("1")), Node("n2", <<"A">>, NoProps)>>,
              edges |-> <<Edge("e1", "n1", "n2", "T", NoProps)>>],
             [nodes |-> <<Node("n3", <<"A">>, NoProps)>>, edges |-> <<>>],
             [nodes |-> <<>>, edges |-> <<Edge("e2", "n2", "n2", "T", NoProps)>>]}}

Last(s) == s[Len(s)]
Front(s) == SubSeq(s, 1, Len(s) - 1)

SessionInit ==
    /\ state = EmptyGraph
    /\ patchHistory = <<>>
    /\ undoStack = <<>>
    /\ limiter = [nodeCount |-> 0, edgeCount |-> 0]
    /\ lru = LRU_new
    /\ connector = Undefined
    /\ now = 0
    /\ call = [op |-> "new", outcome |-> "ok"]
    /\ IdleFn /\ IdleManager /\ IdleCache

idleInSession == <<arg, ret, graph, queryCount, cm>>

\* A commit that leaves the redo stack as it is.
CommitKeepsRedoStack(newState) ==
    /\ state' = newState
    /\ patchHistory' = Append(patchHistory, calculatePatch(state, newState))
    /\ undoStack' = undoStack
    /\ limiter' = updateCounts(Len(newState.nodes), Len(newState.edges))

\* The state after a committed change from the current state to newState.
Commit(newState) ==
    /\ state' = newState
    /\ patchHistory' = Append(patchHistory, calculatePatch(state, newState))
    /\ undoStack' = <<>>
    /\ limiter' = updateCounts(Len(newState.nodes), Len(newState.edges))

connect(c, rejects) ==
    /\ connector' = c
    /\ call' = [op |-> "connect", outcome |-> IF rejects THEN "rejected" ELSE "ok"]
    /\ UNCHANGED <<state, patchHistory, undoStack, limiter, lru, now, idleInSession>>

\* A disconnect that leaves the connector attached.
disconnectKeepsConnector(rejects) ==
    /\ connector' = connector
    /\ call' = [op |-> "disconnect",
                outcome |-> IF connector # Undefined /\ rejects THEN "rejected" ELSE "ok"]
    /\ UNCHANGED <<state, patchHistory, undoStack, limiter, lru, now, idleInSession>>

disconnect(rejects) ==
    /\ connector' = IF connector # Undefined /\ ~rejects THEN Undefined ELSE connector
    /\ call' = [op |-> "disconnect",
                outcome |-> IF connector # Undefined /\ rejects THEN "rejected" ELSE "ok"]
    /\ UNCHANGED <<state, patchHistory, undoStack, limiter, lru, now, idleInSession>>

\* mergeData: the state the data merges into.
mergedState(data) ==
    [nodes |-> MapSetAll(MapFrom(state.nodes), data.nodes),
     edges |-> MapSetAll(MapFrom(state.edges), data.edges)]

executeQuery(query, response) ==
    /\ UNCHANGED <<connector, now, idleInSession>>
    /\ IF connector = Undefined
       THEN /\ call' = [op |-> "executeQuery", outcome |-> "ValidationError"]
            /\ UNCHANGED <<state, patchHistory, undoStack, limiter, lru>>
       ELSE
       LET cacheKey == generateQueryCacheKey(connector, PropGet(query, "type"), query)
           cached   == LRU_get(lru, queryCacheConfig, cacheKey, now)
           newNodes == SelectSeq(response.data.nodes,
                                 LAMBDA n : ~\E i \in DOMAIN state.nodes :
                                                state.nodes[i].id = n.id)
           newEdges == SelectSeq(response.data.edges,
                                 LAMBDA e : ~\E i \in DOMAIN state.edges :
                                                state.edges[i].id = e.id)
           newState == mergedState(response.data)
       IN  /\ lru.stats.hits + lru.stats.misses < MaxLookups
           /\ IF cached.hit
              THEN /\ lru' = cached.lru
                   /\ call' = [op |-> "executeQuery", outcome |-> "cached",
                               data |-> cached.value]
                   /\ UNCHANGED <<state, patchHistory, undoStack, limiter>>
              ELSE IF response.rejects
              THEN /\ lru' = cached.lru
                   /\ call' = [op |-> "executeQuery", outcome |-> "ConnectionError"]
                   /\ UNCHANGED <<state, patchHistory, undoStack, limiter>>
              ELSE IF \/ ~checkNodeLimit(limiter, sessionConfig, Len(newNodes)).allowed
                      \/ ~checkEdgeLimit(limiter, sessionConfig, Len(newEdges)).allowed
              THEN /\ lru' = cached.lru
                   /\ call' = [op |-> "executeQuery", outcome |-> "LimitExceededError",
                               key |-> cacheKey, data |-> response.data]
                   /\ UNCHANGED <<state, patchHistory, undoStack, limiter>>
              ELSE /\ lru' = LRU_set(cached.lru, queryCacheConfig, cacheKey,
                                     response.data, now)
                   /\ IF ~isPatchEmpty(calculatePatch(state, newState))
                      THEN /\ Len(patchHistory) < MaxHistory
                           /\ Commit(newState)
                           /\ call' = [op |-> "executeQuery", outcome |-> "merged",
                                       key |-> cacheKey, data |-> response.data,
                                       before |-> state]
                      ELSE /\ call' = [op |-> "executeQuery", outcome |-> "unchanged",
                                       key |-> cacheKey, data |-> response.data]
                           /\ UNCHANGED <<state, patchHistory, undoStack, limiter>>

addNodes(nodes) ==
    /\ UNCHANGED <<lru, connector, now, idleInSession>>
    /\ IF ~checkNodeLimit(limiter, sessionConfig, Len(nodes)).allowed
       THEN /\ call' = [op |-> "addNodes", outcome |-> "LimitExceededError"]
            /\ UNCHANGED <<state, patchHistory, undoStack, limiter>>
       ELSE /\ Len(patchHistory) < MaxHistory
            /\ Commit([nodes |-> MapSetAll(MapFrom(state.nodes), nodes),
                       edges |-> state.edges])
            /\ call' = [op |-> "addNodes", outcome |-> "ok", before |-> state]

addEdges(edges) ==
    /\ UNCHANGED <<lru, connector, now, idleInSession>>
    /\ IF ~checkEdgeLimit(limiter, sessionConfig, Len(edges)).allowed
       THEN /\ call' = [op |-> "addEdges", outcome |-> "LimitExceededError"]
            /\ UNCHANGED <<state, patchHistory, undoStack, limiter>>
       ELSE /\ Len(patchHistory) < MaxHistory
            /\ Commit([nodes |-> state.nodes,
                       edges |-> MapSetAll(MapFrom(state.edges), edges)])
            /\ call' = [op |-> "addEdges", outcome |-> "ok", before |-> state]

\* The newState of removeNodes: the nodes and edges that remain.
remainingState(s, nodeIds) ==
    [nodes |-> SelectSeq(s.nodes, LAMBDA n : n.id \notin Range(nodeIds)),
     edges |-> SelectSeq(s.edges, LAMBDA e :
                   e.source \notin Range(nodeIds) /\ e.target \notin Range(nodeIds))]

removeNodes(nodeIds) ==
    /\ UNCHANGED <<lru, connector, now, idleInSession>>
    /\ Len(patchHistory) < MaxHistory
    /\ Commit(remainingState(state, nodeIds))
    /\ call' = [op |-> "removeNodes", outcome |-> "ok", before |-> state]

\* An undo that does not keep the patch it undoes.
undoDropsPatch ==
    /\ UNCHANGED <<lru, connector, now, idleInSession>>
    /\ IF patchHistory = <<>>
       THEN /\ call' = [op |-> "undo", outcome |-> "null"]
            /\ UNCHANGED <<state, patchHistory, undoStack, limiter>>
       ELSE LET lastPatch == Last(patchHistory)
                newState  == applyPatch(state, invertPatch(lastPatch))
            IN  /\ patchHistory' = Front(patchHistory)
                /\ state' = newState
                /\ undoStack' = undoStack
                /\ limiter' = updateCounts(Len(newState.nodes), Len(newState.edges))
                /\ call' = [op |-> "undo", outcome |-> "patch", before |-> state]

undo ==
    /\ UNCHANGED <<lru, connector, now, idleInSession>>
    /\ IF patchHistory = <<>>
       THEN /\ call' = [op |-> "undo", outcome |-> "null"]
            /\ UNCHANGED <<state, patchHistory, undoStack, limiter>>
       ELSE LET lastPatch == Last(patchHistory)
                newState  == applyPatch(state, invertPatch(lastPatch))
            IN  /\ patchHistory' = Front(patchHistory)
                /\ state' = newState
                /\ undoStack' = Append(undoStack, lastPatch)
                /\ limiter' = updateCounts(Len(newState.nodes), Len(newState.edges))
                /\ call' = [op |-> "undo", outcome |-> "patch", before |-> state]

redo ==
    /\ UNCHANGED <<lru, connector, now, idleInSession>>
    /\ IF undoStack = <<>>
       THEN /\ call' = [op |-> "redo", outcome |-> "null"]
            /\ UNCHANGED <<state, patchHistory, undoStack, limiter>>
       ELSE LET patchToRedo == Last(undoStack)
                newState    == applyPatch(state, patchToRedo)
            IN  /\ undoStack' = Front(undoStack)
                /\ state' = newState
                /\ patchHistory' = Append(patchHistory, patchToRedo)
                /\ limiter' = updateCounts(Len(newState.nodes), Len(newState.edges))
                /\ call' = [op |-> "redo", outcome |-> "patch"]

\* Whether the session holds a graph, a history, a redo stack and a cached result.
holdsData ==
    state.nodes # <<>> /\ patchHistory # <<>> /\ undoStack # <<>> /\ lru.cache # <<>>

\* A clear that leaves the redo stack as it is.
clearKeepsRedoStack ==
    /\ state' = EmptyGraph
    /\ patchHistory' = <<>>
    /\ undoStack' = undoStack
    /\ lru' = LRU_clear(lru)
    /\ limiter' = [nodeCount |-> 0, edgeCount |-> 0]
    /\ call' = [op |-> "clear", outcome |-> "ok", held |-> holdsData]
    /\ UNCHANGED <<connector, now, idleInSession>>

clear ==
    /\ state' = EmptyGraph
    /\ patchHistory' = <<>>
    /\ undoStack' = <<>>
    /\ lru' = LRU_clear(lru)
    /\ limiter' = [nodeCount |-> 0, edgeCount |-> 0]
    /\ call' = [op |-> "clear", outcome |-> "ok", held |-> holdsData]
    /\ UNCHANGED <<connector, now, idleInSession>>

\* JSON.stringify of a node or an edge, as JSON.parse reads it back.
JSONentity(x) == [x EXCEPT !.properties = JSONstringify(@)]

JSONgraph(g) == [nodes |-> [i \in DOMAIN g.nodes |-> JSONentity(g.nodes[i])],
                 edges |-> [i \in DOMAIN g.edges |-> JSONentity(g.edges[i])]]

JSONentries(entries) ==
    [i \in DOMAIN entries |->
        IF entries[i].operation = "update"
        THEN [operation |-> "update", entity |-> JSONentity(entries[i].entity),
              previous |-> JSONentity(entries[i].previous)]
        ELSE [operation |-> entries[i].operation,
              entity |-> JSONentity(entries[i].entity)]]

JSONpatch(patch) == [nodePatch |-> JSONentries(patch.nodePatch),
                     edgePatch |-> JSONentries(patch.edgePatch)]

\* GraphSession.toJSON at time t: the document, as JSON.parse reads it back.
toJSON(s, history, t) ==
    [data |-> JSONgraph(s),
     patchHistory |-> [i \in DOMAIN history |-> JSONpatch(history[i])],
     timestamp |-> t]

\* GraphSession.fromJSON: the fields of the session it returns.
fromJSON(parsed) ==
    [state |-> parsed.data,
     patchHistory |-> parsed.patchHistory,
     undoStack |-> <<>>,
     limiter |-> updateCounts(Len(parsed.data.nodes), Len(parsed.data.edges)),
     lru |-> LRU_new,
     connector |-> Undefined]

\* session = GraphSession.fromJSON(session.toJSON()): the program goes on with
\* the session it restored.
GraphSession_fromJSON ==
    LET session == fromJSON(toJSON(state, patchHistory, now))
    IN  /\ state' = session.state
        /\ patchHistory' = session.patchHistory
        /\ undoStack' = session.undoStack
        /\ limiter' = session.limiter
        /\ lru' = session.lru
        /\ connector' = session.connector
        /\ call' = [op |-> "fromJSON", outcome |-> "ok"]
        /\ UNCHANGED <<now, idleInSession>>

\* Date.now() advances between calls.
Tick ==
    /\ now < MaxTime
    /\ now' = now + 1
    /\ call' = [op |-> "tick", outcome |-> "ok"]
    /\ UNCHANGED <<arg, ret, sessionVars, managerVars, cm>>

SessionNext ==
    \/ \E c \in SessionConnectors, rejects \in BOOLEAN : connect(c, rejects)
    \/ \E rejects \in BOOLEAN : disconnect(rejects)
    \/ \E q \in SessionQueries, r \in ConnectorResponses : executeQuery(q, r)
    \/ \E nodes \in SeqsUpTo(SessionNodes, MaxBatch) : addNodes(nodes)
    \/ \E edges \in SeqsUpTo(SessionEdges, MaxBatch) : addEdges(edges)
    \/ \E nodeIds \in SeqsUpTo({"n1", "n2"}, MaxBatch) : removeNodes(nodeIds)
    \/ undo
    \/ redo
    \/ clear
    \/ GraphSession_fromJSON
    \/ Tick

SpecSession == SessionInit /\ [][SessionNext]_vars

\* A call that committed a change of the graph.
ForwardCommitted(c) ==
    \/ c.op \in {"addNodes", "addEdges", "removeNodes"} /\ c.outcome = "ok"
    \/ c.op = "executeQuery" /\ c.outcome = "merged"

\* C3: after a committed change (addNodes, addEdges, removeNodes, a merging
\* executeQuery), undo() restores exactly the graph that preceded the change,
\* and a redo() following the undo restores the graph that followed the change.
C3_UndoRedoRestore ==
    [][/\ (ForwardCommitted(call) /\ call'.op = "undo")
            => GraphView(state') = GraphView(call.before)
       /\ (call.op = "undo" /\ call.outcome = "patch" /\ call'.op = "redo")
            => GraphView(state') = GraphView(call.before)]_vars

\* The connector answered the call (no validation error, no cache hit, no
\* rejection by the connector).
Answered(c) ==
    c.op = "executeQuery" /\ c.outcome \in {"LimitExceededError", "merged", "unchanged"}

\* Merging data into graph g would take it above maxNodes or maxEdges.
WouldExceed(g, data) ==
    \/ Cardinality(Ids(g.nodes) \cup Ids(data.nodes)) > sessionConfig.maxNodes
    \/ Cardinality(Ids(g.edges) \cup Ids(data.edges)) > sessionConfig.maxEdges

SessionUntouched ==
    /\ state' = state
    /\ patchHistory' = patchHistory
    /\ undoStack' = undoStack
    /\ limiter' = limiter

\* C6 as stated: when the connector's result would take the session above
\* maxNodes or maxEdges, executeQuery rejects with LimitExceededError and the
\* graph, patchHistory, the redo stack, the limiter's counts and the cache
\* contents are exactly as before the call.
C6_RejectsUntouchedAsStated ==
    [][(Answered(call') /\ WouldExceed(state, call'.data))
          => /\ call'.outcome = "LimitExceededError"
             /\ SessionUntouched
             /\ lru'.cache = lru.cache]_vars

\* C6 amended: the same, but of the cache: nothing of the result is cached, and
\* its entries are as before except that an expired entry under the query's
\* key has been dropped by the lookup.
C6_RejectsUntouched ==
    [][(Answered(call') /\ WouldExceed(state, call'.data))
          => /\ call'.outcome = "LimitExceededError"
             /\ SessionUntouched
             /\ lru'.cache = SelectSeq(lru.cache, LAMBDA e :
                    ~(e.id = call'.key /\ now - e.timestamp > queryCacheConfig.ttlMs))]_vars

\* A query over the limit has been rejected by a session that has a graph at
\* its node limit and a history.
C6_Witness ==
    /\ call.op = "executeQuery" /\ call.outcome = "LimitExceededError"
    /\ WouldExceed(state, call.data)
    /\ Len(state.nodes) = sessionConfig.maxNodes
    /\ patchHistory # <<>>

\* C8: the redo stack is emptied by every forward change and never by undo or
\* redo: a redo() right after a forward change returns null and changes
\* nothing, every successful undo() adds one patch to the redo stack and
\* redo() takes exactly one from it whenever it holds one (so k undos allow k
\* redos).
C8_RedoStackDiscipline ==
    [][/\ ForwardCommitted(call') => undoStack' = <<>>
       /\ (ForwardCommitted(call) /\ call'.op = "redo")
            => call'.outcome = "null" /\ SessionUntouched
       /\ (call'.op = "undo" /\ call'.outcome = "patch")
            => Len(undoStack') = Len(undoStack) + 1
       /\ call'.op = "redo"
            => /\ (call'.outcome = "patch") = (undoStack # <<>>)
               /\ undoStack # <<>> => Len(undoStack') = Len(undoStack) - 1]_vars

\* Two changes were undone and one of them redone.
C8_Witness ==
    /\ call.op = "redo" /\ call.outcome = "patch"
    /\ Len(undoStack) = 1 /\ Len(patchHistory) = 1

\* C9: undo() and redo() only move a patch from one stack to the other, so the
\* number of patches on the two stacks together never changes; on an empty
\* stack they return null and change nothing.
C9_StacksOnlyExchange ==
    [][/\ call'.op = "undo" =>
            IF patchHistory = <<>>
            THEN call'.outcome = "null" /\ SessionUntouched
            ELSE /\ call'.outcome = "patch"
                 /\ patchHistory' = Front(patchHistory)
                 /\ undoStack' = Append(undoStack, Last(patchHistory))
       /\ call'.op = "redo" =>
            IF undoStack = <<>>
            THEN call'.outcome = "null" /\ SessionUntouched
            ELSE /\ call'.outcome = "patch"
                 /\ undoStack' = Front(undoStack)
                 /\ patchHistory' = Append(patchHistory, Last(undoStack))
       /\ call'.op \in {"undo", "redo"} =>
            Len(patchHistory') + Len(undoStack') = Len(patchHistory) + Len(undoStack)]_vars

\* Both patches of the history have been undone.
C9_Witness ==
    /\ call.op = "undo" /\ call.outcome = "patch"
    /\ Len(undoStack) = 2 /\ patchHistory = <<>>

\* C13: the session is in Connected state while a connector is attached: it
\* is not before any connect() and not after a disconnect() that resolved.
\* executeQuery on a session that is not in Connected state rejects with
\* ValidationError, before any call of a connector, and leaves the graph, both
\* history stacks, the limiter's counts and the cache as they were.
C13_QueryNeedsConnection ==
    /\ connector = Undefined
    /\ [][/\ (call'.op # "connect" /\ connector = Undefined)
                => connector' = Undefined
          /\ (call'.op = "disconnect" /\ call'.outcome = "ok")
                => connector' = Undefined
          /\ (call'.op = "executeQuery" /\ connector = Undefined)
                => /\ call'.outcome = "ValidationError"
                   /\ SessionUntouched
                   /\ lru' = lru
                   /\ connector' = Undefined]_vars

\* A query was refused after a disconnect() by a session that holds a graph, a
\* history and a cached result.
C13_Witness ==
    /\ call.op = "executeQuery" /\ call.outcome = "ValidationError"
    /\ connector = Undefined
    /\ state.nodes # <<>>
    /\ patchHistory # <<>>
    /\ lru.cache # <<>>

\* C15: GraphSession.fromJSON(s.toJSON()) has a graph equal to s's graph, a
\* patchHistory equal to s's patchHistory, and limiter counts equal to the
\* numbers of nodes and edges of the restored graph.
C15_JsonRoundTrip ==
    [][call'.op = "fromJSON"
          => /\ state' = state
             /\ patchHistory' = patchHistory
             /\ limiter' = [nodeCount |-> Len(state'.nodes),
                            edgeCount |-> Len(state'.edges)]]_vars

(***************************************************************************)
(* cache/cache-manager: CacheManager.  The Map of entries is the sequence  *)
(* of its entries in insertion order; an entry's id is its key.            *)
(***************************************************************************)
CM_new == [cache |-> <<>>, hits |-> 0, misses |-> 0, evictions |-> 0,
           accessCounter |-> 0]

queryKey(query) == <<"query:", JSONstringify(query)>>

\* An expiry test that already fires when the age equals the TTL.
CM_expiredAtTtl(entry, t) == t - entry.createdAt >= entry.ttlMs

CM_expired(entry, t) == t - entry.createdAt > entry.ttlMs

\* CacheManager.get at time t: the cache afterwards and the value returned.
CM_get(c, key, t) ==
    IF ~MapHas(c.cache, key)
    THEN [cm |-> [c EXCEPT !.misses = @ + 1], hit |-> FALSE, value |-> Undefined]
    ELSE LET entry == MapGet(c.cache, key)
         IN  IF CM_expired(entry, t)
             THEN [cm |-> [c EXCEPT !.cache = MapDelete(@, key), !.misses = @ + 1],
                   hit |-> FALSE, value |-> Undefined]
             ELSE [cm |-> [c EXCEPT
                             !.cache = MapSet(@, [entry EXCEPT
                                                    !.accessedAt = t,
                                                    !.accessOrder = c.accessCounter + 1]),
                             !.accessCounter = @ + 1,
                             !.hits = @ + 1],
                   hit |-> TRUE, value |-> entry.value]

\* The key evictLRU settles on: of the first entry with the smallest
\* accessOrder; undefined for an empty cache.
CM_oldestKey(c) ==
    IF c.cache = <<>> THEN Undefined
    ELSE c.cache[CHOOSE i \in DOMAIN c.cache :
                     /\ \A j \in DOMAIN c.cache :
                            c.cache[i].accessOrder <= c.cache[j].accessOrder
                     /\ \A j \in 1..(i - 1) :
                            c.cache[j].accessOrder > c.cache[i].accessOrder].id

\* if (oldestKey): undefined and the empty string are falsy.
Truthy(key) == key # Undefined /\ key # ""

CM_evictLRU(c) ==
    IF c.cache # <<>> /\ Truthy(CM_oldestKey(c))
    THEN [c EXCEPT !.cache = MapDelete(@, CM_oldestKey(c)), !.evictions = @ + 1]
    ELSE c

\* ttlMs ?? this.config.defaultTtlMs; the optional argument is <<>> or <<ttl>>.
CM_ttl(config, ttlMs) == IF ttlMs = <<>> THEN config.defaultTtlMs ELSE ttlMs[1]

CM_set(c, config, key, value, ttlMs, t) ==
    LET room == IF Len(c.cache) >= config.maxEntries /\ ~MapHas(c.cache, key)
                THEN CM_evictLRU(c) ELSE c
    IN  [room EXCEPT
            !.cache = MapSet(@, [id |-> key, value |-> value, createdAt |-> t,
                                 accessedAt |-> t,
                                 accessOrder |-> room.accessCounter + 1,
                                 ttlMs |-> CM_ttl(config, ttlMs)]),
            !.accessCounter = @ + 1]

\* CacheManager.has at time t: the cache afterwards and the answer.
CM_has(c, key, t) ==
    IF ~MapHas(c.cache, key) THEN [cm |-> c, found |-> FALSE]
    ELSE IF CM_expired(MapGet(c.cache, key), t)
    THEN [cm |-> [c EXCEPT !.cache = MapDelete(@, key)], found |-> FALSE]
    ELSE [cm |-> c, found |-> TRUE]

CM_delete(c, key) == [cm |-> [c EXCEPT !.cache = MapDelete(@, key)],
                      deleted |-> MapHas(c.cache, key)]

CM_clear(c) == [c EXCEPT !.cache = <<>>, !.hits = 0, !.misses = 0, !.evictions = 0]

CM_prune(c, t) ==
    [cm |-> [c EXCEPT !.cache = SelectSeq(@, LAMBDA e : ~CM_expired(e, t))],
     pruned |-> Len(SelectSeq(c.cache, LAMBDA e : CM_expired(e, t)))]

CM_stats(c) == [size |-> Len(c.cache), hits |-> c.hits, misses |-> c.misses,
                evictions |-> c.evictions]

(***************************************************************************)
(* SpecCache: a CacheManager under set / get / has / delete / clear /      *)
(* prune calls, the clock advancing between calls.                         *)
(***************************************************************************)
CacheMaxEntries == 2
CacheDefaultTtl == 1
MaxAccess == 4
MaxMisses == 1

cacheConfig == [maxEntries |-> CacheMaxEntries, defaultTtlMs |-> CacheDefaultTtl]

CacheKeys == {"", "a", "b"}
CacheValues == {"v1"}
CacheTtls == {<<>>, <<0>>}

CacheInit ==
    /\ cm = CM_new
    /\ now = 0
    /\ call = [op |-> "new", outcome |-> "ok"]
    /\ IdleFn /\ IdleSession /\ IdleManager

idleInCache == <<arg, ret, sessionVars, managerVars, now>>

CacheManager_set(key, value, ttlMs) ==
    /\ cm.accessCounter < MaxAccess
    /\ cm' = CM_set(cm, cacheConfig, key, value, ttlMs, now)
    /\ call' = [op |-> "set", key |-> key, outcome |-> "ok"]
    /\ UNCHANGED idleInCache

CacheManager_get(key) ==
    /\ cm.accessCounter < MaxAccess
    /\ cm.misses < MaxMisses
    /\ cm' = CM_get(cm, key, now).cm
    /\ call' = [op |-> "get", key |-> key,
                outcome |-> IF CM_get(cm, key, now).hit THEN "hit" ELSE "miss",
                value |-> CM_get(cm, key, now).value,
                stored |-> MapHas(cm.cache, key)]
    /\ UNCHANGED idleInCache

CacheManager_has(key) ==
    /\ cm' = CM_has(cm, key, now).cm
    /\ call' = [op |-> "has", key |-> key,
                outcome |-> IF CM_has(cm, key, now).found THEN "true" ELSE "false"]
    /\ UNCHANGED idleInCache

CacheManager_delete(key) ==
    /\ cm' = CM_delete(cm, key).cm
    /\ call' = [op |-> "delete", key |-> key,
                outcome |-> IF CM_delete(cm, key).deleted THEN "true" ELSE "false"]
    /\ UNCHANGED idleInCache

CacheManager_clear ==
    /\ cm' = CM_clear(cm)
    /\ call' = [op |-> "clear", outcome |-> "ok"]
    /\ UNCHANGED idleInCache

CacheManager_prune ==
    /\ cm' = CM_prune(cm, now).cm
    /\ call' = [op |-> "prune", outcome |-> "ok", pruned |-> CM_prune(cm, now).pruned]
    /\ UNCHANGED idleInCache

CacheNext ==
    \/ \E key \in CacheKeys, value \in CacheValues, ttlMs \in CacheTtls :
           CacheManager_set(key, value, ttlMs)
    \/ \E key \in CacheKeys : CacheManager_get(key)
    \/ \E key \in CacheKeys : CacheManager_has(key)
    \/ \E key \in CacheKeys : CacheManager_delete(key)
    \/ CacheManager_clear
    \/ CacheManager_prune
    \/ Tick

SpecCache == CacheInit /\ [][CacheNext]_vars

\* C10: a set of a new key into a cache that holds maxEntries entries evicts
\* exactly one entry, the least recently accessed one (the entry whose latest
\* set or successful get is the oldest), whatever was inserted first.
C10_EvictsLeastRecentlyAccessed ==
    [][(/\ call'.op = "set"
        /\ ~MapHas(cm.cache, call'.key)
        /\ Len(cm.cache) = cacheConfig.maxEntries)
          => \E i \in DOMAIN cm.cache :
                /\ \A j \in DOMAIN cm.cache :
                       cm.cache[i].accessOrder <= cm.cache[j].accessOrder
                /\ Ids(cm'.cache) = (Ids(cm.cache) \ {cm.cache[i].id}) \cup {call'.key}
                /\ Len(cm'.cache) = Len(cm.cache)
                /\ cm'.evictions = cm.evictions + 1]_vars

\* C11: for a key stored by set at time t with TTL d and still in the cache,
\* get at time t' returns the stored value iff t' - t <= d; otherwise it
\* returns undefined, counts a miss and removes the expired entry.
C11_GetHonoursTtl ==
    [][(call'.op = "get" /\ MapHas(cm.cache, call'.key))
          => LET entry == MapGet(cm.cache, call'.key)
             IN  IF now - entry.createdAt <= entry.ttlMs
                 THEN /\ call'.outcome = "hit"
                      /\ call'.value = entry.value
                      /\ MapHas(cm'.cache, call'.key)
                      /\ cm'.misses = cm.misses
                 ELSE /\ call'.outcome = "miss"
                      /\ call'.value = Undefined
                      /\ cm'.misses = cm.misses + 1
                      /\ ~MapHas(cm'.cache, call'.key)]_vars

\* A get found the key stored but expired, and removed it.
C11_Witness ==
    /\ call.op = "get" /\ call.stored /\ call.outcome = "miss"
    /\ ~MapHas(cm.cache, call.key)
    /\ cm.misses = 1

(***************************************************************************)
(* session/index.ts: SessionManager                                        *)
(***************************************************************************)
ManagerMaxNodes == 1
ManagerMaxEdges == 1
ManagerMaxNodesPerQuery == 1
ManagerMaxEdgesPerQuery == 1
MaxManagerBatch == 2
MaxPatchOps == 1
MaxQueryCount == 2

managerConfig ==
    [limits |-> [maxNodes |-> ManagerMaxNodes, maxEdges |-> ManagerMaxEdges,
                 maxNodesPerQuery |-> ManagerMaxNodesPerQuery,
                 maxEdgesPerQuery |-> ManagerMaxEdgesPerQuery],
     cacheTtlMs |-> CacheDefaultTtl,
     maxCacheEntries |-> CacheMaxEntries]

managerCacheConfig == [maxEntries |-> managerConfig.maxCacheEntries,
                       defaultTtlMs |-> managerConfig.cacheTtlMs]

ManagerNodes ==
    {Node("n1", <<"A">>, NoProps), Node("n2", <<"A">>, NoProps)}

ManagerEdges ==
    {Edge("e1", "n1", "n2", "T", NoProps), Edge("e2", "n2", "n1", "T", NoProps)}

ManagerPatchOps ==
    {[op |-> "add", type |-> "node", node |-> n] : n \in ManagerNodes}
    \cup {[op |-> "remove", type |-> "node", nodeId |-> id] : id \in {"n1", "n2"}}
    \cup {[op |-> "update", type |-> "node", nodeId |-> "n1", properties |-> K("1")]}
    \cup {[op |-> "add", type |-> "edge", edge |-> e] : e \in ManagerEdges}
    \cup {[op |-> "remove", type |-> "edge", edgeId |-> "e1"]}

\* The batches passed to addData: at most MaxManagerBatch entities together.
ManagerBatches ==
    {b \in [nodes : SeqsUpTo(ManagerNodes, MaxManagerBatch),
            edges : SeqsUpTo(ManagerEdges, MaxManagerBatch)] :
        Len(b.nodes) + Len(b.edges) <= MaxManagerBatch}

ManagerQueries == {<<<<"type", "getNode">>, <<"nodeId", "n1">>>>}

ManagerResults == {[nodes |-> <<Node("n1", <<"A">>, NoProps)>>, edges |-> <<>>]}

\* validateLimits without its first check (the per-query size of the nodes).
validateLimitsSkipsNodesPerQuery(g, limits, nodes, edges) ==
    LET newNodes == SelectSeq(nodes, LAMBDA n : n.id \notin Ids(g.nodes))
        newEdges == SelectSeq(edges, LAMBDA e : e.id \notin Ids(g.edges))
        totalNodes == Len(g.nodes) + Len(newNodes)
        totalEdges == Len(g.edges) + Len(newEdges)
        Throw(limitType, limit, attempted) ==
            [throws |-> TRUE, limitType |-> limitType, limit |-> limit,
             attempted |-> attempted]
    IN  IF Len(edges) > limits.maxEdgesPerQuery
        THEN Throw("maxEdgesPerQuery", limits.maxEdgesPerQuery, Len(edges))
        ELSE IF totalNodes > limits.maxNodes
        THEN Throw("maxNodes", limits.maxNodes, totalNodes)
        ELSE IF totalEdges > limits.maxEdges
        THEN Throw("maxEdges", limits.maxEdges, totalEdges)
        ELSE [throws |-> FALSE, limitType |-> "", limit |-> 0, attempted |-> 0]

\* validateLimits on graph g: whether it throws, and the SessionLimitError.
validateLimits(g, limits, nodes, edges) ==
    LET newNodes == SelectSeq(nodes, LAMBDA n : n.id \notin Ids(g.nodes))
        newEdges == SelectSeq(edges, LAMBDA e : e.id \notin Ids(g.edges))
        totalNodes == Len(g.nodes) + Len(newNodes)
        totalEdges == Len(g.edges) + Len(newEdges)
        Throw(limitType, limit, attempted) ==
            [throws |-> TRUE, limitType |-> limitType, limit |-> limit,
             attempted |-> attempted]
    IN  IF Len(nodes) > limits.maxNodesPerQuery
        THEN Throw("maxNodesPerQuery", limits.maxNodesPerQuery, Len(nodes))
        ELSE IF Len(edges) > limits.maxEdgesPerQuery
        THEN Throw("maxEdgesPerQuery", limits.maxEdgesPerQuery, Len(edges))
        ELSE IF totalNodes > limits.maxNodes
        THEN Throw("maxNodes", limits.maxNodes, totalNodes)
        ELSE IF totalEdges > limits.maxEdges
        THEN Throw("maxEdges", limits.maxEdges, totalEdges)
        ELSE [throws |-> FALSE, limitType |-> "", limit |-> 0, attempted |-> 0]

ManagerInit ==
    /\ graph = EmptyGraph
    /\ queryCount = 0
    /\ cm = CM_new
    /\ now = 0
    /\ call = [op |-> "new", outcome |-> "ok"]
    /\ IdleFn /\ IdleSession

idleInManager == <<arg, ret, sessionVars, now>>

SM_addData(nodes, edges) ==
    LET check == validateLimits(graph, managerConfig.limits, nodes, edges)
        applied == PE_apply(graph, createAddPatch(nodes, edges))
    IN  /\ UNCHANGED <<cm, idleInManager>>
        /\ IF check.throws
           THEN /\ call' = [op |-> "addData", outcome |-> "SessionLimitError",
                            nodesLength |-> Len(nodes), edgesLength |-> Len(edges),
                            error |-> [limitType |-> check.limitType,
                                       limit |-> check.limit,
                                       attempted |-> check.attempted]]
                /\ UNCHANGED <<graph, queryCount>>
           ELSE /\ queryCount < MaxQueryCount
                /\ graph' = applied.graph
                /\ queryCount' = queryCount + 1
                /\ call' = [op |-> "addData", outcome |-> "ok",
                            nodesLength |-> Len(nodes), edgesLength |-> Len(edges),
                            success |-> applied.result.success]

SM_removeData(nodeIds, edgeIds) ==
    LET applied == PE_apply(graph, createRemovePatch(nodeIds, edgeIds))
    IN  /\ graph' = applied.graph
        /\ call' = [op |-> "removeData", outcome |-> "ok",
                    success |-> applied.result.success]
        /\ UNCHANGED <<queryCount, cm, idleInManager>>

SM_applyPatch(patch) ==
    LET applied == PE_apply(graph, patch)
    IN  /\ graph' = applied.graph
        /\ call' = [op |-> "applyPatch", outcome |-> "ok",
                    success |-> applied.result.success]
        /\ UNCHANGED <<queryCount, cm, idleInManager>>

SM_getCached(query) ==
    LET got == CM_get(cm, queryKey(query), now)
    IN  /\ cm.hits + cm.misses < MaxLookups
        /\ cm.accessCounter < MaxLookups
        /\ cm' = got.cm
        /\ call' = [op |-> "getCached", outcome |-> IF got.hit THEN "hit" ELSE "miss"]
        /\ UNCHANGED <<graph, queryCount, idleInManager>>

SM_setCache(query, result) ==
    /\ cm.accessCounter < MaxLookups
    /\ cm' = CM_set(cm, managerCacheConfig, queryKey(query), result, <<>>, now)
    /\ call' = [op |-> "setCache", outcome |-> "ok"]
    /\ UNCHANGED <<graph, queryCount, idleInManager>>

SM_clear ==
    /\ graph' = EmptyGraph
    /\ cm' = CM_clear(cm)
    /\ queryCount' = 0
    /\ call' = [op |-> "clear", outcome |-> "ok"]
    /\ UNCHANGED idleInManager

ManagerNext ==
    \/ \E b \in ManagerBatches : SM_addData(b.nodes, b.edges)
    \/ \E nodeIds \in SeqsUpTo({"n1", "n2"}, 1), edgeIds \in SeqsUpTo({"e1"}, 1) :
           SM_removeData(nodeIds, edgeIds)
    \/ \E ops \in SeqsUpTo(ManagerPatchOps, MaxPatchOps) :
           SM_applyPatch([operations |-> ops])
    \/ \E q \in ManagerQueries : SM_getCached(q)
    \/ \E q \in ManagerQueries, r \in ManagerResults : SM_setCache(q, r)
    \/ SM_clear

SpecManager == ManagerInit /\ [][ManagerNext]_vars

\* C4: after any sequence of addData, removeData and applyPatch calls, the
\* throwing ones included, the session graph holds at most limits.maxNodes
\* nodes and at most limits.maxEdges edges.
C4_GraphWithinLimits ==
    /\ Len(graph.nodes) <= managerConfig.limits.maxNodes
    /\ Len(graph.edges) <= managerConfig.limits.maxEdges

\* C5: addData with more than maxNodesPerQuery nodes throws SessionLimitError
\* with limitType "maxNodesPerQuery", limit maxNodesPerQuery and attempted
\* nodes.length, and leaves the graph, queryCount and the cache as they were.
C5_PerQueryLimitThrows ==
    [][(/\ call'.op = "addData"
        /\ call'.nodesLength > managerConfig.limits.maxNodesPerQuery)
          => /\ call'.outcome = "SessionLimitError"
             /\ call'.error = [limitType |-> "maxNodesPerQuery",
                               limit |-> managerConfig.limits.maxNodesPerQuery,
                               attempted |-> call'.nodesLength]
             /\ graph' = graph
             /\ queryCount' = queryCount
             /\ cm' = cm]_vars

\* An oversized addData was refused by a session that holds a graph, a query
\* count and a cached result.
C5_Witness ==
    /\ call.op = "addData" /\ call.outcome = "SessionLimitError"
    /\ call.nodesLength > managerConfig.limits.maxNodesPerQuery
    /\ graph.nodes # <<>>
    /\ queryCount > 0
    /\ cm.cache # <<>>

(***************************************************************************)
(* SpecSessions: a session of either class, a GraphSession or a            *)
(* SessionManager, under the calls of its class.                           *)
(***************************************************************************)
IsGraphSession == DOMAIN lru # {}

IsSessionManager == DOMAIN cm # {}

SessionsInit == SessionInit \/ ManagerInit

SessionsNext ==
    \/ IsGraphSession /\ SessionNext
    \/ IsSessionManager /\ ManagerNext

SpecSessions == SessionsInit /\ [][SessionsNext]_vars

\* C14: clear() leaves the graph with no nodes and no edges, both history
\* stacks empty (an undo() or redo() that follows returns null), the cache with
\* no entry to retrieve (a lookup that follows misses), and the limiter's
\* counts (GraphSession) and the query count (SessionManager) at zero.
C14_ClearResets ==
    [][/\ (call'.op = "clear" /\ IsGraphSession)
            => /\ state' = EmptyGraph
               /\ patchHistory' = <<>>
               /\ undoStack' = <<>>
               /\ lru'.cache = <<>>
               /\ limiter' = [nodeCount |-> 0, edgeCount |-> 0]
       /\ (call'.op = "clear" /\ IsSessionManager)
            => /\ graph' = EmptyGraph
               /\ cm'.cache = <<>>
               /\ queryCount' = 0
       /\ (call.op = "clear" /\ call'.op \in {"undo", "redo"})
            => call'.outcome = "null"
       /\ (call.op = "clear" /\ call'.op = "executeQuery")
            => call'.outcome # "cached"
       /\ (call.op = "clear" /\ call'.op = "getCached")
            => call'.outcome = "miss"]_vars

\* A GraphSession that held a graph, a history, a redo stack and a cached
\* result has been cleared.
C14_Witness ==
    /\ call.op = "clear" /\ IsGraphSession /\ call.held
    /\ state = EmptyGraph /\ patchHistory = <<>> /\ undoStack = <<>>
    /\ lru.cache = <<>>

(***************************************************************************)
(* SpecRemove: the three ways of removing a node, each on every graph and  *)
(* every input of the universe below.                                      *)
(***************************************************************************)
MaxRemoveNodes == 2
MaxRemoveEdges == 2
MaxRemoveOps == 2
MaxRemoveIds == 2

RemoveNodesUniverse == {Node("n1", <<"A">>, NoProps), Node("n2", <<"A">>, NoProps)}

RemoveEdgesUniverse ==
    {Edge("e1", "n1", "n2", "T", NoProps), Edge("e2", "n2", "n1", "T", NoProps),
     Edge("e3", "n2", "n2", "T", NoProps)}

\* Graphs of the universe; an edge may name a node the graph does not hold.
RemoveGraphs ==
    GraphsOver(RemoveNodesUniverse, RemoveEdgesUniverse, MaxRemoveNodes, MaxRemoveEdges)

RemoveOps ==
    {[op |-> "remove", type |-> "node", nodeId |-> id] : id \in {"n1", "n2"}}
    \cup {[op |-> "remove", type |-> "edge", edgeId |-> "e1"]}
    \cup {[op |-> "add", type |-> "node", node |-> Node("n1", <<"A">>, NoProps)]}
    \cup {[op |-> "add", type |-> "edge",
           edge |-> Edge("e1", "n1", "n2", "T", NoProps)]}

RemoveInit ==
    /\ arg \in [fn : {"apply"}, graph : RemoveGraphs,
                ops : SeqsUpTo(RemoveOps, MaxRemoveOps)]
          \cup [fn : {"removeData"}, graph : RemoveGraphs,
                nodeIds : SeqsUpTo({"n1", "n2"}, MaxRemoveIds),
                edgeIds : SeqsUpTo({"e1", "e3"}, 1)]
          \cup [fn : {"removeNodes"}, graph : RemoveGraphs,
                nodeIds : SeqsUpTo({"n1", "n2"}, MaxRemoveIds)]
    /\ ret = <<>>
    /\ call = [op |-> "none"]
    /\ IdleSession /\ IdleManager /\ IdleCache /\ IdleClock

\* PatchEngine.apply(graph, {operations: ops}): the working maps after each
\* operation, steps[k] after the first k.
RemoveByApply ==
    /\ call.op = "none" /\ arg.fn = "apply"
    /\ ret' = [steps |-> [k \in 0..Len(arg.ops) |->
                             PE_applyLoop(arg.graph, arg.ops, k)],
               graph |-> PE_apply(arg.graph, [operations |-> arg.ops]).graph]
    /\ call' = [op |-> "apply"]
    /\ UNCHANGED <<arg, sessionVars, managerVars, cm, now>>

\* SessionManager.removeData(nodeIds, edgeIds) on a session holding the graph.
RemoveByRemoveData ==
    /\ call.op = "none" /\ arg.fn = "removeData"
    /\ ret' = [graph |-> PE_apply(arg.graph,
                                  createRemovePatch(arg.nodeIds, arg.edgeIds)).graph]
    /\ call' = [op |-> "removeData"]
    /\ UNCHANGED <<arg, sessionVars, managerVars, cm, now>>

\* GraphSession.removeNodes(nodeIds) on a session holding the graph.
RemoveByRemoveNodes ==
    /\ call.op = "none" /\ arg.fn = "removeNodes"
    /\ ret' = [graph |-> remainingState(arg.graph, arg.nodeIds)]
    /\ call' = [op |-> "removeNodes"]
    /\ UNCHANGED <<arg, sessionVars, managerVars, cm, now>>

RemoveNext == RemoveByApply \/ RemoveByRemoveData \/ RemoveByRemoveNodes

SpecRemove == RemoveInit /\ [][RemoveNext]_vars

Touches(e, n) == e.source = n \/ e.target = n

NoEdgeTouches(edges, n) == \A i \in DOMAIN edges : ~Touches(edges[i], n)

IsRemoveNode(o) == o.op = "remove" /\ o.type = "node"

\* C7: removing a node id that is present leaves no edge whose source or target
\* is that id: right after a remove-node operation of PatchEngine.apply, after
\* SessionManager.removeData and after GraphSession.removeNodes.
C7_RemovedNodeHasNoEdges ==
    /\ call.op = "apply" =>
          \A k \in 1..Len(arg.ops) :
              (IsRemoveNode(arg.ops[k])
               /\ MapHas(ret.steps[k - 1].nodeMap, arg.ops[k].nodeId))
                 => NoEdgeTouches(ret.steps[k].edgeMap, arg.ops[k].nodeId)
    /\ call.op \in {"removeData", "removeNodes"} =>
          \A i \in DOMAIN arg.nodeIds :
              MapHas(arg.graph.nodes, arg.nodeIds[i])
                 => NoEdgeTouches(ret.graph.edges, arg.nodeIds[i])

\* A remove-node operation has removed a present node that had two edges.
C7_Witness ==
    /\ call.op = "apply"
    /\ \E k \in 1..Len(arg.ops) :
          /\ IsRemoveNode(arg.ops[k])
          /\ MapHas(ret.steps[k - 1].nodeMap, arg.ops[k].nodeId)
          /\ Len(ret.steps[k - 1].edgeMap) = 2
          /\ ret.steps[k].edgeMap = <<>>

(***************************************************************************)
(* SpecAdd: PatchEngine.apply on every patch of the universe below, and    *)
(* SessionManager.addData on a session holding any graph of it.            *)
(***************************************************************************)
MaxAddNodes == 2
MaxAddEdges == 1
MaxAddOps == 3
MaxAddBatch == 2
AddMaxNodes == 2
AddMaxEdges == 1
AddMaxNodesPerQuery == 2
AddMaxEdgesPerQuery == 1

addLimits == [maxNodes |-> AddMaxNodes, maxEdges |-> AddMaxEdges,
              maxNodesPerQuery |-> AddMaxNodesPerQuery,
              maxEdgesPerQuery |-> AddMaxEdgesPerQuery]

AddNodesUniverse ==
    {Node("n1", <<"A">>, NoProps), Node("n1", <<"A">>, K("1")),
     Node("n2", <<"A">>, NoProps)}

AddEdgesUniverse ==
    {Edge("e1", "n1", "n2", "T", NoProps), Edge("e1", "n2", "n1", "T", NoProps)}

AddGraphs == GraphsOver(AddNodesUniverse, AddEdgesUniverse, MaxAddNodes, MaxAddEdges)

AddOps ==
    {[op |-> "add", type |-> "node", node |-> n] : n \in AddNodesUniverse}
    \cup {[op |-> "add", type |-> "edge", edge |-> e] : e \in AddEdgesUniverse}
    \cup {[op |-> "remove", type |-> "node", nodeId |-> "n1"]}
    \cup {[op |-> "update", type |-> "node", nodeId |-> "n1", properties |-> K("2")]}

AddInit ==
    /\ arg \in [fn : {"apply"}, graph : AddGraphs, ops : SeqsUpTo(AddOps, MaxAddOps)]
          \cup [fn : {"addData"}, graph : AddGraphs,
                nodes : SeqsUpTo(AddNodesUniverse, MaxAddBatch),
                edges : SeqsUpTo(AddEdgesUniverse, 1)]
    /\ ret = <<>>
    /\ call = [op |-> "none"]
    /\ IdleSession /\ IdleManager /\ IdleCache /\ IdleClock

\* PatchEngine.apply(graph, {operations: ops}): the working maps after each
\* operation (steps[k] after the first k), the graph and the result.
AddByApply ==
    /\ call.op = "none" /\ arg.fn = "apply"
    /\ ret' = [steps |-> [k \in 0..Len(arg.ops) |->
                             PE_applyLoop(arg.graph, arg.ops, k)],
               graph |-> PE_apply(arg.graph, [operations |-> arg.ops]).graph,
               result |-> PE_apply(arg.graph, [operations |-> arg.ops]).result]
    /\ call' = [op |-> "apply"]
    /\ UNCHANGED <<arg, sessionVars, managerVars, cm, now>>

\* SessionManager.addData(nodes, edges) on a session holding the graph: it
\* throws, or returns the result and leaves the session with a new graph.
AddByAddData ==
    LET check   == validateLimits(arg.graph, addLimits, arg.nodes, arg.edges)
        applied == PE_apply(arg.graph, createAddPatch(arg.nodes, arg.edges))
    IN  /\ call.op = "none" /\ arg.fn = "addData"
        /\ ret' = IF check.throws
                  THEN [outcome |-> "SessionLimitError", graph |-> arg.graph,
                        result |-> [success |-> FALSE, appliedCount |-> 0,
                                    errors |-> <<>>]]
                  ELSE [outcome |-> "ok", graph |-> applied.graph,
                        result |-> applied.result]
        /\ call' = [op |-> "addData"]
        /\ UNCHANGED <<arg, sessionVars, managerVars, cm, now>>

AddNext == AddByApply \/ AddByAddData

SpecAdd == AddInit /\ [][AddNext]_vars

IsAdd(o) == o.op = "add"

\* Whether the working maps hold the id an add operation adds.
AlreadyPresent(w, o) ==
    IF o.type = "node" THEN MapHas(w.nodeMap, o.node.id)
    ELSE MapHas(w.edgeMap, o.edge.id)

\* The operations without operation number k.
Without(ops, k) == SubSeq(ops, 1, k - 1) \o SubSeq(ops, k + 1, Len(ops))

\* C12: in PatchEngine.apply an add operation whose id is already present
\* leaves the maps (so the existing entity) as they are, records an "already
\* exists" error for that operation and makes result.success false, while the
\* other operations of the patch are applied as they are without it; and
\* SessionManager.addData of ids already in the session, when it returns, has
\* success false and leaves the node count unchanged.
C12_AddOfPresentIdIsRecorded ==
    /\ call.op = "apply" =>
          \A k \in 1..Len(arg.ops) :
              (IsAdd(arg.ops[k]) /\ AlreadyPresent(ret.steps[k - 1], arg.ops[k]))
                 => /\ ret.steps[k].nodeMap = ret.steps[k - 1].nodeMap
                    /\ ret.steps[k].edgeMap = ret.steps[k - 1].edgeMap
                    /\ ret.steps[k].appliedCount = ret.steps[k - 1].appliedCount
                    /\ ret.steps[k].errors =
                          Append(ret.steps[k - 1].errors,
                                 [index |-> k - 1, operation |-> arg.ops[k],
                                  message |-> "already exists"])
                    /\ ret.result.success = FALSE
                    /\ \E i \in DOMAIN ret.result.errors :
                           /\ ret.result.errors[i].index = k - 1
                           /\ ret.result.errors[i].message = "already exists"
                    /\ ret.graph =
                          PE_apply(arg.graph,
                                   [operations |-> Without(arg.ops, k)]).graph
                    /\ ret.result.appliedCount =
                          PE_apply(arg.graph,
                                   [operations |-> Without(arg.ops, k)]).result.appliedCount
    /\ (call.op = "addData" /\ ret.outcome = "ok") =>
          /\ (\E i \in DOMAIN arg.nodes : MapHas(arg.graph.nodes, arg.nodes[i].id))
                => ret.result.success = FALSE
          /\ (\A i \in DOMAIN arg.nodes : MapHas(arg.graph.nodes, arg.nodes[i].id))
                => /\ Len(ret.graph.nodes) = Len(arg.graph.nodes)
                   /\ ret.graph.nodes = arg.graph.nodes

\* An add of a present node id stood between two operations that were applied:
\* the node is updated before it and an edge added after it.
C12_Witness ==
    /\ call.op = "apply" /\ Len(arg.ops) = 3
    /\ IsAdd(arg.ops[2]) /\ arg.ops[2].type = "node"
    /\ AlreadyPresent(ret.steps[1], arg.ops[2])
    /\ ret.steps[1].appliedCount = 1
    /\ ret.result.appliedCount = 2
    /\ Len(ret.result.errors) = 1
    /\ ret.result.success = FALSE

(***************************************************************************)
(* SpecKey: generateQueryCacheKey on every pair of queries of the universe *)
(* below: findNodes queries with a label filter and a limit, their         *)
(* properties inserted in every order.                                     *)
(***************************************************************************)
MaxKeyParams == 3

KeyLabelFilters ==
    {<<<<"labels", "A">>, <<"mode", m>>>> : m \in {"any", "all"}}
    \cup {<<<<"mode", m>>, <<"labels", "A">>>> : m \in {"any", "all"}}

KeyEntries ==
    {<<"type", "findNodes">>}
    \cup {<<"labelFilter", "object", f>> : f \in KeyLabelFilters}
    \cup {<<"limit", l>> : l \in {"1", "2"}}

\* The queries: objects with a type, no key twice.
KeyQueries ==
    {q \in SeqsUpTo(KeyEntries, MaxKeyParams) :
        /\ \E i \in DOMAIN q : q[i][1] = "type"
        /\ \A i, j \in DOMAIN q : i # j => q[i][1] # q[j][1]}

KeyInit ==
    /\ arg \in [a : KeyQueries, b : KeyQueries, connectorId : {"c1"}]
    /\ ret = <<>>
    /\ call = [op |-> "none"]
    /\ IdleSession /\ IdleManager /\ IdleCache /\ IdleClock

\* The cache keys executeQuery computes for the two queries.
KeyOfBoth ==
    /\ call.op = "none"
    /\ ret' = [a |-> generateQueryCacheKey(arg.connectorId, PropGet(arg.a, "type"), arg.a),
               b |-> generateQueryCacheKey(arg.connectorId, PropGet(arg.b, "type"), arg.b)]
    /\ call' = [op |-> "generateQueryCacheKey"]
    /\ UNCHANGED <<arg, sessionVars, managerVars, cm, now>>

KeyNext == KeyOfBoth

SpecKey == KeyInit /\ [][KeyNext]_vars

\* An object as a key -> value mapping at every nesting level (insertion
\* order forgotten).
RECURSIVE ObjectMap(_)
ObjectMap(obj) ==
    {IF Len(obj[i]) = 2 THEN obj[i] ELSE <<obj[i][1], "object", ObjectMap(obj[i][3])>> :
        i \in DOMAIN obj}

\* C18: two queries with the same source id, the same query type and the same
\* parameter keys and values map to the same cache key, whatever the order
\* their properties were inserted in, at any nesting level of the parameters.
C18_SameQuerySameKey ==
    (call.op = "generateQueryCacheKey" /\ ObjectMap(arg.a) = ObjectMap(arg.b))
        => ret.a = ret.b

(***************************************************************************)
(* connectors/mock/mock-data.ts: MockConnector.handleFindPath.  The        *)
(* visited Map is the sequence of its entries [id, parent, edge] in        *)
(* insertion order; a null parent is "undefined", the edge is <<>> (null)  *)
(* or <<edge>>.                                                            *)
(***************************************************************************)
DefaultMaxLength == 10

\* getPathDepth that always answers 0.
getPathDepthZero(visited, nodeId) == 0

RECURSIVE getPathDepth(_, _)
getPathDepth(visited, nodeId) ==
    LET parent == IF MapHas(visited, nodeId) THEN MapGet(visited, nodeId).parent
                  ELSE Undefined
    IN  IF parent = Undefined THEN 0 ELSE 1 + getPathDepth(visited, parent)

\* The loop over [...outEdges, ...inEdges] of the node taken from the queue.
RECURSIVE VisitNeighbors(_, _, _, _)
VisitNeighbors(current, edges, queue, visited) ==
    IF edges = <<>> THEN [queue |-> queue, visited |-> visited]
    ELSE LET edge     == Head(edges)
             neighbor == IF edge.source = current THEN edge.target ELSE edge.source
         IN  IF ~MapHas(visited, neighbor)
             THEN VisitNeighbors(current, Tail(edges), Append(queue, neighbor),
                                 Append(visited, [id |-> neighbor, parent |-> current,
                                                  edge |-> <<edge>>]))
             ELSE VisitNeighbors(current, Tail(edges), queue, visited)

\* The reconstruction loop, from node back to the source.
RECURSIVE ReconstructPath(_, _, _)
ReconstructPath(data, visited, node) ==
    IF node = Undefined THEN [nodes |-> <<>>, edges |-> <<>>]
    ELSE LET info == MapGet(visited, node)
             rest == ReconstructPath(data, visited,
                                     IF MapHas(visited, node) THEN info.parent
                                     ELSE Undefined)
         IN  [nodes |-> rest.nodes \o (IF MapHas(MapFrom(data.nodes), node)
                                       THEN <<MapGet(MapFrom(data.nodes), node)>>
                                       ELSE <<>>),
              edges |-> rest.edges \o (IF MapHas(visited, node) THEN info.edge
                                       ELSE <<>>)]

\* The while loop over the queue.
RECURSIVE FindPathLoop(_, _, _, _, _)
FindPathLoop(data, targetId, maxDepth, queue, visited) ==
    IF queue = <<>> THEN [nodes |-> <<>>, edges |-> <<>>]
    ELSE LET current  == Head(queue)
             outEdges == SelectSeq(data.edges, LAMBDA e : e.source = current)
             inEdges  == SelectSeq(data.edges, LAMBDA e : e.target = current)
             next     == VisitNeighbors(current, outEdges \o inEdges,
                                        Tail(queue), visited)
         IN  IF current = targetId
             THEN ReconstructPath(data, visited, targetId)
             ELSE IF getPathDepth(visited, current) >= maxDepth
             THEN FindPathLoop(data, targetId, maxDepth, Tail(queue), visited)
             ELSE FindPathLoop(data, targetId, maxDepth, next.queue, next.visited)

\* handleFindPath on the connector's data; maxLength is <<>> (absent) or <<n>>.
handleFindPath(data, sourceId, targetId, maxLength) ==
    LET maxDepth == IF maxLength = <<>> THEN DefaultMaxLength ELSE maxLength[1]
    IN  FindPathLoop(data, targetId, maxDepth, <<sourceId>>,
                     <<[id |-> sourceId, parent |-> Undefined, edge |-> <<>>]>>)

(***************************************************************************)
(* SpecPath: findPath on every graph of the universe below (four nodes,    *)
(* the edges in every order), every source, target and maxLength.          *)
(***************************************************************************)
MaxPathEdges == 4
MaxPathLength == 2

PathNodes == <<Node("n1", <<"A">>, NoProps), Node("n2", <<"A">>, NoProps),
               Node("n3", <<"A">>, NoProps), Node("n4", <<"A">>, NoProps)>>

PathEdgesUniverse ==
    {Edge("e1", "n1", "n2", "T", NoProps), Edge("e2", "n2", "n3", "T", NoProps),
     Edge("e3", "n3", "n4", "T", NoProps), Edge("e4", "n3", "n1", "T", NoProps),
     Edge("e5", "n4", "n4", "T", NoProps)}

PathGraphs ==
    {[nodes |-> PathNodes, edges |-> es] :
        es \in {x \in SeqsUpTo(PathEdgesUniverse, MaxPathEdges) : UniqueIds(x)}}

\* The ids asked for: the nodes' and one that no node has.
PathIds == Ids(PathNodes) \cup {"x"}

PathInit ==
    /\ arg \in [data : PathGraphs, sourceId : PathIds, targetId : PathIds,
                maxLength : {<<>>} \cup {<<n>> : n \in 0..MaxPathLength}]
    /\ ret = <<>>
    /\ call = [op |-> "none"]
    /\ IdleSession /\ IdleManager /\ IdleCache /\ IdleClock

FindPath ==
    /\ call.op = "none"
    /\ ret' = handleFindPath(arg.data, arg.sourceId, arg.targetId, arg.maxLength)
    /\ call' = [op |-> "findPath"]
    /\ UNCHANGED <<arg, sessionVars, managerVars, cm, now>>

PathNext == FindPath

SpecPath == PathInit /\ [][PathNext]_vars

\* The node ids within k edges of the ids in from, edges walked in either
\* direction.
RECURSIVE Within(_, _, _)
Within(data, from, k) ==
    IF k = 0 THEN from
    ELSE LET near == Within(data, from, k - 1)
         IN  near \cup {e.target : e \in {x \in Range(data.edges) : x.source \in near}}
                  \cup {e.source : e \in {x \in Range(data.edges) : x.target \in near}}

\* The length asked for: maxLength, 10 when it is absent.
PathLimit == IF arg.maxLength = <<>> THEN DefaultMaxLength ELSE arg.maxLength[1]

\* The smallest number of edges from the source to the target, when the target
\* is a node within PathLimit edges of the source node; -1 otherwise.
PathDistance ==
    LET ks == {k \in 0..PathLimit :
                  /\ arg.sourceId \in Ids(arg.data.nodes)
                  /\ arg.targetId \in Within(arg.data, {arg.sourceId}, k)}
    IN  IF ks = {} THEN -1 ELSE CHOOSE k \in ks : \A j \in ks : k <= j

\* The result is a path from the source to the target: nodes and edges of the
\* data, each edge joining the node at its place to the next.
IsPath(r) ==
    /\ Len(r.nodes) = Len(r.edges) + 1
    /\ r.nodes[1].id = arg.sourceId
    /\ r.nodes[Len(r.nodes)].id = arg.targetId
    /\ \A i \in DOMAIN r.nodes : r.nodes[i] \in Range(arg.data.nodes)
    /\ \A i \in DOMAIN r.edges :
          /\ r.edges[i] \in Range(arg.data.edges)
          /\ \/ r.edges[i].source = r.nodes[i].id /\ r.edges[i].target = r.nodes[i + 1].id
             \/ r.edges[i].target = r.nodes[i].id /\ r.edges[i].source = r.nodes[i + 1].id

\* C19: findPath(source, target, maxLength), walking edges in either
\* direction: when the target is reachable from the source within maxLength
\* edges the result is a path from source to target with the smallest possible
\* number of edges; otherwise its nodes and edges are empty.
C19_FindPathIsShortest ==
    call.op = "findPath" =>
        IF PathDistance >= 0
        THEN IsPath(ret) /\ Len(ret.edges) = PathDistance
        ELSE ret.nodes = <<>> /\ ret.edges = <<>>

\* A path of two edges was found within maxLength 2 in a graph that also
\* joins the two nodes by a longer way.
C19_Witness ==
    /\ call.op = "findPath"
    /\ arg.sourceId = "n1" /\ arg.targetId = "n4" /\ arg.maxLength = <<2>>
    /\ Len(arg.data.edges) = 4
    /\ {arg.data.edges[i].id : i \in DOMAIN arg.data.edges} = {"e1", "e2", "e3", "e4"}
    /\ Len(ret.edges) = 2

(***************************************************************************)
(* Random sampling: MockConnector.handleSample (strategy "random"),        *)
(* randomSample of the accelerator fallbacks and sampleRandom of the       *)
(* seeded fallbacks.  A value of random() is written as its numerator over *)
(* RandomSteps: r stands for the fraction r / RandomSteps.                  *)
(***************************************************************************)
RandomSteps == 4

Min(a, b) == IF a < b THEN a ELSE b

\* createRng(seed): the values the generator returns.  seed is <<>> (absent)
\* or <<n>>.  state starts at the seed (at a number >= 0 when it is absent) and
\* becomes (state * 1103515245 + 12345) % 2147483648, whose sign is the sign of
\* the dividend: from a seed >= 0 the values are in [0, 1), from a seed <= -1
\* they are in (-1, 0].  draws are the magnitudes.
createRng(seed, draws) ==
    IF seed # <<>> /\ seed[1] < 0
    THEN [i \in DOMAIN draws |-> 0 - draws[i]]
    ELSE draws

\* Array.from({length}, (_, i) => i) as the array's properties: property k
\* holds <<v>>, or <<>> when reading it gives undefined.  The properties go
\* down to -length, the least j the shuffle can compute.
IndicesOf(length) ==
    [k \in (0 - length)..(length - 1) |-> IF k >= 0 THEN <<k>> ELSE <<>>]

\* The Fisher-Yates loop from i down to 1; random[d] is the value of the
\* d-th call of random().
RECURSIVE FisherYates(_, _, _, _)
FisherYates(indices, i, random, d) ==
    IF i <= 0 THEN indices
    ELSE LET j == (random[d] * (i + 1)) \div RandomSteps
         IN  FisherYates([indices EXCEPT ![i] = indices[j], ![j] = indices[i]],
                         i - 1, random, d + 1)

\* The edges whose source and target are both among the ids.
EdgesWithin(edges, ids) ==
    SelectSeq(edges, LAMBDA e : e.source \in ids /\ e.target \in ids)

\* handleSample("random", count): sort with a random comparator leaves the
\* nodes in some order, order[k] being the place the k-th node came from.
handleSample(data, count, order) ==
    LET shuffled     == [k \in DOMAIN data.nodes |-> data.nodes[order[k]]]
        sampledNodes == SubSeq(shuffled, 1, Min(count, Len(shuffled)))
    IN  [threw |-> FALSE,
         nodes |-> sampledNodes,
         edges |-> EdgesWithin(data.edges, Ids(sampledNodes))]

\* The part randomSample and sampleRandom share: the shuffle, the slice and
\* the map over the selected indices, which throws a TypeError on an index
\* that is undefined.
ShuffleSample(data, count, random) ==
    LET nodeCount       == Min(count, Len(data.nodes))
        indices         == FisherYates(IndicesOf(Len(data.nodes)),
                                       Len(data.nodes) - 1, random, 1)
        selectedIndices == [k \in 1..nodeCount |-> indices[k - 1]]
    IN  IF \E k \in 1..nodeCount : selectedIndices[k] = <<>>
        THEN [threw |-> TRUE, nodes |-> <<>>, edges |-> <<>>]
        ELSE LET sampledNodes == [k \in 1..nodeCount |->
                                     data.nodes[selectedIndices[k][1] + 1]]
             IN  [threw |-> FALSE,
                  nodes |-> sampledNodes,
                  edges |-> EdgesWithin(data.edges, Ids(sampledNodes))]

\* randomSample(data, count): random is Math.random.
randomSample(data, count, draws) == ShuffleSample(data, count, draws)

\* sampleRandom({graph, count, seed}): random is createRng(seed), its values
\* given by params.draws; the result
\* holds the ids of the nodes and of the edges.
sampleRandom(params) ==
    LET r == ShuffleSample(params.graph, params.count,
                           createRng(params.seed, params.draws))
    IN  [threw |-> r.threw,
         sampledNodeIds |-> [k \in DOMAIN r.nodes |-> r.nodes[k].id],
         sampledEdgeIds |-> [k \in DOMAIN r.edges |-> r.edges[k].id]]

(***************************************************************************)
(* SpecSample: the three random samplers on every graph of the universe    *)
(* below, every count and every outcome of the random choices.             *)
(***************************************************************************)
MaxSampleNodes == 3
MaxSampleEdges == 2
MaxSampleCount == 4

SampleNodes == <<Node("n1", <<"A">>, NoProps), Node("n2", <<"A">>, NoProps),
                 Node("n3", <<"A">>, NoProps)>>

SampleEdgesUniverse ==
    {Edge("e1", "n1", "n2", "T", NoProps), Edge("e2", "n2", "n3", "T", NoProps),
     Edge("e3", "n1", "n1", "T", NoProps)}

\* The first nodes of SampleNodes with edges between them.
SampleGraphs ==
    {[nodes |-> SubSeq(SampleNodes, 1, n), edges |-> es] :
        n \in 0..MaxSampleNodes,
        es \in {x \in SeqsUpTo(SampleEdgesUniverse, MaxSampleEdges) : UniqueIds(x)}}

WellFormed(g) ==
    \A i \in DOMAIN g.edges :
        g.edges[i].source \in Ids(g.nodes) /\ g.edges[i].target \in Ids(g.nodes)

SampleCounts == 0..MaxSampleCount

\* The magnitudes of the values of random(), one for each turn of the shuffle.
SampleDraws == [1..(MaxSampleNodes - 1) -> 0..(RandomSteps - 1)]

SampleSeeds == {<<>>, <<12345>>, <<0 - 1>>}

SampleInit ==
    /\ arg \in UNION {
           [fn : {"handleSample"}, data : {g}, count : SampleCounts,
            order : Permutations(DOMAIN g.nodes)]
           \cup [fn : {"randomSample"}, data : {g}, count : SampleCounts,
                 draws : SampleDraws]
           \cup [fn : {"sampleRandom"}, data : {g}, count : SampleCounts,
                 seed : SampleSeeds, draws : SampleDraws]
           : g \in {x \in SampleGraphs : WellFormed(x)}}
    /\ ret = <<>>
    /\ call = [op |-> "none"]
    /\ IdleSession /\ IdleManager /\ IdleCache /\ IdleClock

SampleByHandleSample ==
    LET r == handleSample(arg.data, arg.count, arg.order)
    IN  /\ call.op = "none" /\ arg.fn = "handleSample"
        /\ ret' = [threw |-> r.threw,
                   nodeIds |-> [k \in DOMAIN r.nodes |-> r.nodes[k].id],
                   edgeIds |-> [k \in DOMAIN r.edges |-> r.edges[k].id]]
        /\ call' = [op |-> "sample"]
        /\ UNCHANGED <<arg, sessionVars, managerVars, cm, now>>

SampleByRandomSample ==
    LET r == randomSample(arg.data, arg.count, arg.draws)
    IN  /\ call.op = "none" /\ arg.fn = "randomSample"
        /\ ret' = [threw |-> r.threw,
                   nodeIds |-> [k \in DOMAIN r.nodes |-> r.nodes[k].id],
                   edgeIds |-> [k \in DOMAIN r.edges |-> r.edges[k].id]]
        /\ call' = [op |-> "sample"]
        /\ UNCHANGED <<arg, sessionVars, managerVars, cm, now>>

SampleBySampleRandom ==
    LET r == sampleRandom([graph |-> arg.data, count |-> arg.count,
                           seed |-> arg.seed, draws |-> arg.draws])
    IN  /\ call.op = "none" /\ arg.fn = "sampleRandom"
        /\ ret' = [threw |-> r.threw,
                   nodeIds |-> r.sampledNodeIds,
                   edgeIds |-> r.sampledEdgeIds]
        /\ call' = [op |-> "sample"]
        /\ UNCHANGED <<arg, sessionVars, managerVars, cm, now>>

SampleNext == SampleByHandleSample \/ SampleByRandomSample \/ SampleBySampleRandom

SpecSample == SampleInit /\ [][SampleNext]_vars

\* C20: for every graph and every count >= 0 the random sampling strategy
\* returns exactly min(count, |nodes|) distinct node ids, all of the graph,
\* and the returned edges are exactly the graph's edges whose source and
\* target are both sampled, whatever the random choices.
C20_RandomSampleIsExact ==
    call.op = "sample" =>
        /\ ~ret.threw
        /\ Len(ret.nodeIds) = Min(arg.count, Len(arg.data.nodes))
        /\ \A i, j \in DOMAIN ret.nodeIds : i # j => ret.nodeIds[i] # ret.nodeIds[j]
        /\ Range(ret.nodeIds) \subseteq Ids(arg.data.nodes)
        /\ LET within == EdgesWithin(arg.data.edges, Range(ret.nodeIds))
           IN  ret.edgeIds = [k \in DOMAIN within |-> within[k].id]

(***************************************************************************)
(* Random-walk sampling: randomWalkSample of the accelerator fallbacks and *)
(* sampleRandomWalk of the seeded fallbacks.  A Set is the sequence of its *)
(* members in insertion order.                                             *)
(***************************************************************************)
SetAdd(set, v) == IF v \in Range(set) THEN set ELSE Append(set, v)

\* adjacency.get(id) of randomWalkSample after the two loops that build the
\* Map: the edges leaving id, an edge that enters id turned round.
RECURSIVE AdjacentEdges(_, _)
AdjacentEdges(edges, id) ==
    IF edges = <<>> THEN <<>>
    ELSE LET edge == Head(edges)
         IN  (IF edge.source = id THEN <<edge>> ELSE <<>>)
             \o (IF edge.target = id
                 THEN <<[edge EXCEPT !.source = edge.target, !.target = edge.source]>>
                 ELSE <<>>)
             \o AdjacentEdges(Tail(edges), id)

\* adjacency.get(id) of sampleRandomWalk: the ids at the other end.
AdjacentIds(edges, id) ==
    LET adjacent == AdjacentEdges(edges, id)
    IN  [k \in DOMAIN adjacent |-> adjacent[k].target]

\* The inner loop of randomWalkSample from step on; w holds visitedNodes,
\* visitedEdges and the number d of the next value of Math.random.
RECURSIVE WalkEdges(_, _, _, _, _, _)
WalkEdges(data, currentNode, step, walkLength, random, w) ==
    LET edges == IF currentNode \in Ids(data.nodes)
                 THEN AdjacentEdges(data.edges, currentNode) ELSE <<>>
        randomEdge == edges[((random[w.d] * Len(edges)) \div RandomSteps) + 1]
    IN  IF step >= walkLength \/ Len(edges) = 0 THEN w
        ELSE WalkEdges(data, randomEdge.target, step + 1, walkLength, random,
                       [visitedNodes |-> SetAdd(w.visitedNodes, randomEdge.target),
                        visitedEdges |-> SetAdd(w.visitedEdges, randomEdge.id),
                        d |-> w.d + 1])

\* The outer loop of randomWalkSample from walk on.
RECURSIVE RandomWalks(_, _, _, _, _, _, _)
RandomWalks(data, startNodeId, walk, numWalks, walkLength, random, w) ==
    IF walk >= numWalks THEN w
    ELSE RandomWalks(data, startNodeId, walk + 1, numWalks, walkLength, random,
                     WalkEdges(data, startNodeId, 0, walkLength, random,
                               [w EXCEPT !.visitedNodes = SetAdd(@, startNodeId)]))

randomWalkSample(data, startNodeId, walkLength, numWalks, draws) ==
    LET w == RandomWalks(data, startNodeId, 0, numWalks, walkLength, draws,
                         [visitedNodes |-> <<>>, visitedEdges |-> <<>>, d |-> 1])
    IN  [sampledNodes |-> SelectSeq(data.nodes,
                                    LAMBDA n : n.id \in Range(w.visitedNodes)),
         sampledEdges |-> SelectSeq(data.edges,
                                    LAMBDA e : e.id \in Range(w.visitedEdges))]

\* The inner loop of sampleRandomWalk from step on; an index below 0 reads
\* undefined from neighbors, and adjacency.get(undefined) is undefined.
RECURSIVE WalkNeighbors(_, _, _, _, _, _)
WalkNeighbors(data, currentNode, step, walkLength, random, w) ==
    LET neighbors   == IF currentNode \in Ids(data.nodes)
                       THEN AdjacentIds(data.edges, currentNode) ELSE <<>>
        randomIndex == (random[w.d] * Len(neighbors)) \div RandomSteps
        nextNode    == IF randomIndex < 0 THEN Undefined
                       ELSE neighbors[randomIndex + 1]
    IN  IF step >= walkLength \/ Len(neighbors) = 0 THEN w
        ELSE WalkNeighbors(data, nextNode, step + 1, walkLength, random,
                           [visitedNodes |-> SetAdd(w.visitedNodes, nextNode),
                            d |-> w.d + 1])

\* The outer loop of sampleRandomWalk from walk on.
RECURSIVE SeededWalks(_, _, _, _, _, _, _)
SeededWalks(data, startNodeId, walk, numWalks, walkLength, random, w) ==
    IF walk >= numWalks THEN w
    ELSE SeededWalks(data, startNodeId, walk + 1, numWalks, walkLength, random,
                     WalkNeighbors(data, startNodeId, 0, walkLength, random, w))

\* sampleRandomWalk({graph, startNodeId, walkLength, numWalks, seed}): random
\* is createRng(seed), its values given by params.draws.
sampleRandomWalk(params) ==
    LET w == SeededWalks(params.graph, params.startNodeId, 0, params.numWalks,
                         params.walkLength,
                         createRng(params.seed, params.draws),
                         [visitedNodes |-> <<params.startNodeId>>, d |-> 1])
    IN  [sampledNodeIds |-> w.visitedNodes]

(***************************************************************************)
(* SpecWalk: the two random-walk samplers on every graph of SampleGraphs,  *)
(* every start node of the graph, every walkLength and numWalks and every  *)
(* outcome of the random choices.                                          *)
(***************************************************************************)
MaxWalkLength == 2
MaxNumWalks == 2

WalkInit ==
    /\ arg \in UNION {
           [fn : {"randomWalkSample"}, data : {g}, startNodeId : Ids(g.nodes),
            walkLength : {l}, numWalks : {n},
            draws : [1..(l * n) -> 0..(RandomSteps - 1)]]
           \cup [fn : {"sampleRandomWalk"}, data : {g}, startNodeId : Ids(g.nodes),
                 walkLength : {l}, numWalks : {n}, seed : SampleSeeds,
                 draws : [1..(l * n) -> 0..(RandomSteps - 1)]]
           : g \in {x \in SampleGraphs : WellFormed(x)},
             l \in 0..MaxWalkLength, n \in 0..MaxNumWalks}
    /\ ret = <<>>
    /\ call = [op |-> "none"]
    /\ IdleSession /\ IdleManager /\ IdleCache /\ IdleClock

WalkByRandomWalkSample ==
    LET r == randomWalkSample(arg.data, arg.startNodeId, arg.walkLength,
                              arg.numWalks, arg.draws)
    IN  /\ call.op = "none" /\ arg.fn = "randomWalkSample"
        /\ ret' = [nodeIds |-> [k \in DOMAIN r.sampledNodes |-> r.sampledNodes[k].id],
                   edgeIds |-> [k \in DOMAIN r.sampledEdges |-> r.sampledEdges[k].id]]
        /\ call' = [op |-> "randomWalk"]
        /\ UNCHANGED <<arg, sessionVars, managerVars, cm, now>>

WalkBySampleRandomWalk ==
    LET r == sampleRandomWalk([graph |-> arg.data, startNodeId |-> arg.startNodeId,
                               walkLength |-> arg.walkLength,
                               numWalks |-> arg.numWalks,
                               seed |-> arg.seed, draws |-> arg.draws])
    IN  /\ call.op = "none" /\ arg.fn = "sampleRandomWalk"
        /\ ret' = [nodeIds |-> r.sampledNodeIds, edgeIds |-> <<>>]
        /\ call' = [op |-> "randomWalk"]
        /\ UNCHANGED <<arg, sessionVars, managerVars, cm, now>>

WalkNext == WalkByRandomWalkSample \/ WalkBySampleRandomWalk

SpecWalk == WalkInit /\ [][WalkNext]_vars

\* C21: for every graph, start node, walkLength, numWalks and outcome of the
\* random choices the random-walk sample contains the start node, also when
\* the start node has no neighbours.
C21_WalkContainsStart ==
    call.op = "randomWalk" => arg.startNodeId \in Range(ret.nodeIds)

(***************************************************************************)
(* SpecFill: a new CacheManager that only receives set calls of keys it    *)
(* was not given before (no get, has, delete, clear or prune between       *)
(* them).  arg holds the configuration and the keys set so far, in order.  *)
(***************************************************************************)
MaxFillEntries == 3
MaxFillKeys == 4

FillKeys == {"", "a", "b", "c"}

FillInit ==
    /\ arg \in [config : [maxEntries : 1..MaxFillEntries,
                          defaultTtlMs : {CacheDefaultTtl}],
                inserted : {<<>>}]
    /\ ret = <<>>
    /\ cm = CM_new
    /\ now = 0
    /\ call = [op |-> "new", outcome |-> "ok"]
    /\ IdleSession /\ IdleManager

FillSet(key, value) ==
    /\ Len(arg.inserted) < MaxFillKeys
    /\ cm' = CM_set(cm, arg.config, key, value, <<>>, now)
    /\ arg' = [arg EXCEPT !.inserted = Append(@, key)]
    /\ call' = [op |-> "set", key |-> key, outcome |-> "ok"]
    /\ UNCHANGED <<ret, sessionVars, managerVars, now>>

FillNext ==
    \E key \in FillKeys \ Range(arg.inserted), value \in CacheValues :
        FillSet(key, value)

SpecFill == FillInit /\ [][FillNext]_vars

\* C22: after n > maxEntries distinct keys were set into an empty
\* CacheManager with no reads between them, exactly the n - maxEntries keys
\* set first are evicted, the others are all stored, and stats().evictions is
\* n - maxEntries.
C22_FillEvictsFirstInserted ==
    LET n == Len(arg.inserted)
    IN  n > arg.config.maxEntries =>
            /\ Ids(cm.cache) =
                  {arg.inserted[i] : i \in (n - arg.config.maxEntries + 1)..n}
            /\ CM_stats(cm).evictions = n - arg.config.maxEntries

(***************************************************************************)
(* connectors: BaseConnector, MockConnector, Neo4jConnector.  A connector  *)
(* object is named by its class; arg holds, for every object, the id its   *)
(* configuration gives it and its connected flag.                          *)
(***************************************************************************)
Connectors == {"mock", "neo4j"}

getCapabilities(c) ==
    IF c = "mock"
    THEN [connectorType |-> "mock",
          supportedQueryTypes |-> {"getNode", "getNeighbors", "findNodes",
                                   "findPath", "expandNode", "search", "sample"}]
    ELSE [connectorType |-> "neo4j",
          supportedQueryTypes |-> {"getNode", "getNeighbors", "findNodes",
                                   "findPath", "expandNode", "search", "raw"}]

getId(c) == arg.ids[c]

\* checkQuerySupported that lets every query type through.
checkQuerySupportedAllowsAll(c, queryType) == TRUE

\* BaseConnector.checkQuerySupported: FALSE when it throws.
checkQuerySupported(c, queryType) ==
    queryType \in getCapabilities(c).supportedQueryTypes

\* BaseConnector.ensureConnected: FALSE when it throws.
ensureConnected(c) == arg.connected[c]

\* connector.executeQuery(query): the error it throws ("none" when it
\* resolves), whether the query went to the data, and the data.  response is
\* what the data answers; only the Neo4j driver can reject.
Connector_executeQuery(c, query, response) ==
    IF ~ensureConnected(c)
    THEN [error |-> "ConnectionError", dispatched |-> FALSE, data |-> EmptyGraph]
    ELSE IF ~checkQuerySupported(c, PropGet(query, "type"))
    THEN [error |-> "QueryNotSupportedError", dispatched |-> FALSE,
          data |-> EmptyGraph]
    ELSE IF response.rejects /\ c = "neo4j"
    THEN [error |-> "QueryError", dispatched |-> TRUE, data |-> EmptyGraph]
    ELSE [error |-> "none", dispatched |-> TRUE, data |-> response.data]

(***************************************************************************)
(* SpecConnector: a GraphSession with a MockConnector and a Neo4jConnector *)
(* to attach, under connect / disconnect / executeQuery / undo / redo, the *)
(* clock advancing between calls.                                          *)
(***************************************************************************)
ConnectorQueries ==
    {<<<<"type", "getNode">>, <<"nodeId", "n1">>>>,
     <<<<"type", "sample">>, <<"strategy", "random">>, <<"count", "1">>>>}

ConnectorAnswers ==
    {[rejects |-> TRUE, data |-> EmptyGraph],
     [rejects |-> FALSE,
      data |-> [nodes |-> <<Node("n1", <<"A">>, K("1")), Node("n2", <<"A">>, NoProps)>>,
                edges |-> <<Edge("e1", "n1", "n2", "T", NoProps)>>]],
     [rejects |-> FALSE,
      data |-> [nodes |-> <<Node("n3", <<"A">>, NoProps)>>, edges |-> <<>>]]}

ConnectorInit ==
    /\ state = EmptyGraph
    /\ patchHistory = <<>>
    /\ undoStack = <<>>
    /\ limiter = [nodeCount |-> 0, edgeCount |-> 0]
    /\ lru = LRU_new
    /\ connector = Undefined
    /\ now = 0
    /\ arg \in [ids : [Connectors -> {"c1", "c2"}],
                connected : {[c \in Connectors |-> FALSE]}]
    /\ arg.ids["mock"] = "c1"
    /\ ret = <<>>
    /\ call = [op |-> "new", outcome |-> "ok"]
    /\ IdleManager /\ IdleCache

idleInConnector == <<ret, graph, queryCount, cm>>

\* GraphSession.connect(c): the connector is attached before its connect() is
\* awaited; only the Neo4j driver can fail to connect.
GraphSession_connect(c, rejects) ==
    /\ connector' = c
    /\ arg' = IF rejects /\ c = "neo4j" THEN arg
              ELSE [arg EXCEPT !.connected[c] = TRUE]
    /\ call' = [op |-> "connect",
                outcome |-> IF rejects /\ c = "neo4j" THEN "rejected" ELSE "ok"]
    /\ UNCHANGED <<state, patchHistory, undoStack, limiter, lru, now, idleInConnector>>

\* GraphSession.disconnect(): the connector is detached after its
\* disconnect() resolved; only closing the Neo4j driver can reject.
GraphSession_disconnect(rejects) ==
    LET fails == /\ connector = "neo4j" /\ arg.connected["neo4j"] /\ rejects
    IN  /\ connector' = IF fails THEN connector ELSE Undefined
        /\ arg' = IF connector = Undefined \/ fails THEN arg
                  ELSE [arg EXCEPT !.connected[connector] = FALSE]
        /\ call' = [op |-> "disconnect",
                    outcome |-> IF fails THEN "rejected" ELSE "ok"]
        /\ UNCHANGED <<state, patchHistory, undoStack, limiter, lru, now,
                       idleInConnector>>

\* GraphSession.executeQuery(query) with the attached connector object.
GraphSession_executeQuery(query, response) ==
    /\ UNCHANGED <<connector, arg, now, idleInConnector>>
    /\ IF connector = Undefined
       THEN /\ call' = [op |-> "executeQuery", outcome |-> "ValidationError",
                        query |-> query, dispatched |-> FALSE]
            /\ UNCHANGED <<state, patchHistory, undoStack, limiter, lru>>
       ELSE
       LET cacheKey == generateQueryCacheKey(getId(connector),
                                             PropGet(query, "type"), query)
           cached   == LRU_get(lru, queryCacheConfig, cacheKey, now)
           result   == Connector_executeQuery(connector, query, response)
           newNodes == SelectSeq(result.data.nodes,
                                 LAMBDA n : ~\E i \in DOMAIN state.nodes :
                                                state.nodes[i].id = n.id)
           newEdges == SelectSeq(result.data.edges,
                                 LAMBDA e : ~\E i \in DOMAIN state.edges :
                                                state.edges[i].id = e.id)
           newState == mergedState(result.data)
       IN  /\ lru.stats.hits + lru.stats.misses < MaxLookups
           /\ IF cached.hit
              THEN /\ lru' = cached.lru
                   /\ call' = [op |-> "executeQuery", outcome |-> "cached",
                               query |-> query, dispatched |-> FALSE]
                   /\ UNCHANGED <<state, patchHistory, undoStack, limiter>>
              ELSE IF result.error # "none"
              THEN /\ lru' = cached.lru
                   /\ call' = [op |-> "executeQuery", outcome |-> result.error,
                               query |-> query, dispatched |-> result.dispatched]
                   /\ UNCHANGED <<state, patchHistory, undoStack, limiter>>
              ELSE IF \/ ~checkNodeLimit(limiter, sessionConfig, Len(newNodes)).allowed
                      \/ ~checkEdgeLimit(limiter, sessionConfig, Len(newEdges)).allowed
              THEN /\ lru' = cached.lru
                   /\ call' = [op |-> "executeQuery", outcome |-> "LimitExceededError",
                               query |-> query, dispatched |-> TRUE]
                   /\ UNCHANGED <<state, patchHistory, undoStack, limiter>>
              ELSE /\ lru' = LRU_set(cached.lru, queryCacheConfig, cacheKey,
                                     result.data, now)
                   /\ IF ~isPatchEmpty(calculatePatch(state, newState))
                      THEN /\ Len(patchHistory) < MaxHistory
                           /\ Commit(newState)
                           /\ call' = [op |-> "executeQuery", outcome |-> "merged",
                                       query |-> query, dispatched |-> TRUE]
                      ELSE /\ call' = [op |-> "executeQuery", outcome |-> "unchanged",
                                       query |-> query, dispatched |-> TRUE]
                           /\ UNCHANGED <<state, patchHistory, undoStack, limiter>>

ConnectorNext ==
    \/ \E c \in Connectors, rejects \in BOOLEAN : GraphSession_connect(c, rejects)
    \/ \E rejects \in BOOLEAN : GraphSession_disconnect(rejects)
    \/ \E q \in ConnectorQueries, r \in ConnectorAnswers :
           GraphSession_executeQuery(q, r)
    \/ undo
    \/ redo
    \/ Tick

SpecConnector == ConnectorInit /\ [][ConnectorNext]_vars

\* The call is an executeQuery, with a connector attached, of a query whose
\* type is not among the connector's supportedQueryTypes.
UnsupportedQuery(c) ==
    /\ c.op = "executeQuery"
    /\ connector # Undefined
    /\ PropGet(c.query, "type") \notin getCapabilities(connector).supportedQueryTypes

\* The cache key of the call's query and whether the cache holds a live entry
\* under it.
KeyOfCall(c) == generateQueryCacheKey(getId(connector), PropGet(c.query, "type"),
                                      c.query)

LiveInCache(key) ==
    /\ MapHas(lru.cache, key)
    /\ now - MapGet(lru.cache, key).timestamp <= queryCacheConfig.ttlMs

\* C23 as stated: a query whose type is not in the attached connector's
\* supportedQueryTypes fails with QueryNotSupportedError before it is
\* dispatched to the data, and the session graph, the history stacks and the
\* cache are as before the call.
C23_UnsupportedFailsAsStated ==
    [][UnsupportedQuery(call')
          => /\ call'.outcome = "QueryNotSupportedError"
             /\ ~call'.dispatched
             /\ SessionUntouched
             /\ lru'.cache = lru.cache]_vars

\* C23 amended: such a query is never dispatched to the data and leaves the
\* graph, the history stacks and the limiter counts as they were.  When the
\* cache holds a live entry under the query's key the call resolves with it;
\* otherwise it fails, with QueryNotSupportedError when the connector is
\* connected and with ConnectionError when it is not, and the cache entries
\* are as before except that an expired entry under the query's key is gone.
C23_UnsupportedFails ==
    [][UnsupportedQuery(call')
          => /\ ~call'.dispatched
             /\ SessionUntouched
             /\ IF LiveInCache(KeyOfCall(call'))
                THEN call'.outcome = "cached"
                ELSE /\ call'.outcome = IF arg.connected[connector]
                                        THEN "QueryNotSupportedError"
                                        ELSE "ConnectionError"
                     /\ lru'.cache = SelectSeq(lru.cache,
                                               LAMBDA e : e.id # KeyOfCall(call'))]_vars

\* A connected Neo4j connector refused a sample query in a session that holds
\* a graph, a history and a cached result.
C23_Witness ==
    /\ call.op = "executeQuery" /\ call.outcome = "QueryNotSupportedError"
    /\ PropGet(call.query, "type") = "sample"
    /\ connector = "neo4j"
    /\ state.nodes # <<>> /\ patchHistory # <<>> /\ lru.cache # <<>>

(***************************************************************************)
(* accelerator: frontierSample of the fallbacks and AcceleratorClient.     *)
(***************************************************************************)
\* The loop over the edges of the node taken from the queue; q holds the
\* queue and visitedEdges.
RECURSIVE FrontierEdges(_, _, _, _)
FrontierEdges(edges, visitedNodes, maxNodes, q) ==
    IF edges = <<>> THEN q
    ELSE LET edge == Head(edges)
         IN  IF edge.target \notin Range(visitedNodes) /\ Len(visitedNodes) < maxNodes
             THEN FrontierEdges(Tail(edges), visitedNodes, maxNodes,
                                [queue |-> Append(q.queue, edge.target),
                                 visitedEdges |-> SetAdd(q.visitedEdges, edge.id)])
             ELSE FrontierEdges(Tail(edges), visitedNodes, maxNodes, q)

\* The BFS loop with no bound on the number of visited nodes in its condition.
RECURSIVE FrontierLoopUnbounded(_, _, _, _, _)
FrontierLoopUnbounded(data, maxNodes, queue, visitedNodes, visitedEdges) ==
    IF queue = <<>>
    THEN [visitedNodes |-> visitedNodes, visitedEdges |-> visitedEdges]
    ELSE LET currentNode == Head(queue)
             edges == IF currentNode \in Ids(data.nodes)
                      THEN AdjacentEdges(data.edges, currentNode) ELSE <<>>
             q == FrontierEdges(edges, Append(visitedNodes, currentNode), maxNodes,
                                [queue |-> Tail(queue), visitedEdges |-> visitedEdges])
         IN  IF currentNode \in Range(visitedNodes)
             THEN FrontierLoopUnbounded(data, maxNodes, Tail(queue), visitedNodes,
                                        visitedEdges)
             ELSE FrontierLoopUnbounded(data, maxNodes, q.queue,
                                        Append(visitedNodes, currentNode), q.visitedEdges)

\* The BFS loop of frontierSample.
RECURSIVE FrontierLoop(_, _, _, _, _)
FrontierLoop(data, maxNodes, queue, visitedNodes, visitedEdges) ==
    IF queue = <<>> \/ Len(visitedNodes) >= maxNodes
    THEN [visitedNodes |-> visitedNodes, visitedEdges |-> visitedEdges]
    ELSE LET currentNode == Head(queue)
             edges == IF currentNode \in Ids(data.nodes)
                      THEN AdjacentEdges(data.edges, currentNode) ELSE <<>>
             q == FrontierEdges(edges, Append(visitedNodes, currentNode), maxNodes,
                                [queue |-> Tail(queue), visitedEdges |-> visitedEdges])
         IN  IF currentNode \in Range(visitedNodes)
             THEN FrontierLoop(data, maxNodes, Tail(queue), visitedNodes, visitedEdges)
             ELSE FrontierLoop(data, maxNodes, q.queue,
                               Append(visitedNodes, currentNode), q.visitedEdges)

frontierSample(data, startNodeIds, maxNodes) ==
    LET w == FrontierLoop(data, maxNodes, startNodeIds, <<>>, <<>>)
    IN  [sampledNodes |-> SelectSeq(data.nodes,
                                    LAMBDA n : n.id \in Range(w.visitedNodes)),
         sampledEdges |-> SelectSeq(data.edges,
                                    LAMBDA e : e.id \in Range(w.visitedEdges))]

\* The fields of a new AcceleratorClient: no process, not available.
AC_new == [process |-> "null", available |-> FALSE]

\* AcceleratorClient.rpc: the error the promise rejects with ("none" when it
\* resolves) and the result.  answer is what happens to a request that was
\* sent: a result, an error response, or no response before the timeout.
rpc(client, answer) ==
    IF client.process = "null" \/ ~client.available
    THEN [rejects |-> "AcceleratorUnavailableError", result |-> <<>>]
    ELSE IF answer.kind = "result"
    THEN [rejects |-> "none", result |-> answer.result]
    ELSE [rejects |-> "AcceleratorError", result |-> <<>>]

\* A sampling method that awaits rpc with no availability test and no catch.
WithoutFallback(client, answer, fallbackResult) ==
    IF rpc(client, answer).rejects = "none"
    THEN [outcome |-> "resolved", from |-> "accelerator",
          result |-> rpc(client, answer).result]
    ELSE [outcome |-> rpc(client, answer).rejects, from |-> "accelerator",
          result |-> <<>>]

\* The body the three sampling methods share: the accelerator's result when
\* it is available and rpc resolves, the fallback's result otherwise.
WithFallback(client, answer, fallbackResult) ==
    IF client.available /\ rpc(client, answer).rejects = "none"
    THEN [outcome |-> "resolved", from |-> "accelerator",
          result |-> rpc(client, answer).result]
    ELSE [outcome |-> "resolved", from |-> "fallback", result |-> fallbackResult]

(***************************************************************************)
(* SpecAccelerator: an AcceleratorClient (held in arg) under start, stop,  *)
(* the events of the child process and the three sampling methods.         *)
(***************************************************************************)
MaxAcceleratorCount == 2

AcceleratorGraphs ==
    {[nodes |-> SubSeq(SampleNodes, 1, 2), edges |-> <<>>],
     [nodes |-> SampleNodes,
      edges |-> <<Edge("e1", "n1", "n2", "T", NoProps),
                  Edge("e2", "n2", "n3", "T", NoProps)>>]}

AcceleratorAnswers ==
    {[kind |-> "result", result |-> [sampledNodes |-> <<>>, sampledEdges |-> <<>>]],
     [kind |-> "error", result |-> <<>>],
     [kind |-> "timeout", result |-> <<>>]}

AcceleratorInit ==
    /\ arg = AC_new
    /\ ret = <<>>
    /\ call = [op |-> "new", outcome |-> "ok"]
    /\ IdleSession /\ IdleManager /\ IdleCache /\ IdleClock

idleInAccelerator == <<sessionVars, managerVars, cm, now>>

\* start(): findBinary finds a binary or not; the child is spawned and the
\* protocol version asked through rpc.
AcceleratorClient_start(found, answer) ==
    LET spawned == [arg EXCEPT !.process = "running"]
    IN  /\ arg' = IF ~found THEN [arg EXCEPT !.available = FALSE]
                  ELSE [spawned EXCEPT
                           !.available = (rpc(spawned, answer).rejects = "none")]
        /\ call' = [op |-> "start",
                    outcome |-> IF found /\ rpc(spawned, answer).rejects = "none"
                                THEN "true" ELSE "false"]
        /\ UNCHANGED <<ret, idleInAccelerator>>

AcceleratorClient_stop ==
    /\ arg' = IF arg.process # "null" THEN AC_new ELSE arg
    /\ call' = [op |-> "stop", outcome |-> "ok"]
    /\ UNCHANGED <<ret, idleInAccelerator>>

\* The child's 'exit' event.
ProcessExit ==
    /\ arg.process = "running"
    /\ arg' = [process |-> "null", available |-> FALSE]
    /\ call' = [op |-> "exit", outcome |-> "ok"]
    /\ UNCHANGED <<ret, idleInAccelerator>>

\* The child's 'error' event.
ProcessError ==
    /\ arg.process = "running"
    /\ arg' = [arg EXCEPT !.available = FALSE]
    /\ call' = [op |-> "error", outcome |-> "ok"]
    /\ UNCHANGED <<ret, idleInAccelerator>>

AcceleratorClient_randomSample(data, count, draws, answer) ==
    LET shuffled == randomSample(data, count, draws)
        fallback == [sampledNodes |-> shuffled.nodes, sampledEdges |-> shuffled.edges]
        r        == WithFallback(arg, answer, fallback)
    IN  /\ ret' = r.result
        /\ call' = [op |-> "randomSample",
                    outcome |-> IF r.from = "fallback" /\ shuffled.threw
                                THEN "TypeError" ELSE r.outcome,
                    from |-> r.from, answer |-> answer.kind, fallback |-> fallback]
        /\ UNCHANGED <<arg, idleInAccelerator>>

AcceleratorClient_randomWalkSample(data, startNodeId, walkLength, numWalks, draws, answer) ==
    LET r == WithFallback(arg, answer,
                          randomWalkSample(data, startNodeId, walkLength,
                                           numWalks, draws))
    IN  /\ ret' = r.result
        /\ call' = [op |-> "randomWalkSample", outcome |-> r.outcome,
                    from |-> r.from, answer |-> answer.kind,
                    fallback |-> randomWalkSample(data, startNodeId, walkLength,
                                                  numWalks, draws)]
        /\ UNCHANGED <<arg, idleInAccelerator>>

AcceleratorClient_frontierSample(data, startNodeIds, maxNodes, answer) ==
    LET r == WithFallback(arg, answer, frontierSample(data, startNodeIds, maxNodes))
    IN  /\ ret' = r.result
        /\ call' = [op |-> "frontierSample", outcome |-> r.outcome, from |-> r.from,
                    answer |-> answer.kind,
                    fallback |-> frontierSample(data, startNodeIds, maxNodes)]
        /\ UNCHANGED <<arg, idleInAccelerator>>

AcceleratorNext ==
    \/ \E found \in BOOLEAN, answer \in AcceleratorAnswers :
           AcceleratorClient_start(found, answer)
    \/ AcceleratorClient_stop
    \/ ProcessExit
    \/ ProcessError
    \/ \E data \in AcceleratorGraphs, count \in 0..MaxAcceleratorCount,
          draws \in [1..(MaxSampleNodes - 1) -> 0..(RandomSteps - 1)],
          answer \in AcceleratorAnswers :
           AcceleratorClient_randomSample(data, count, draws, answer)
    \/ \E data \in AcceleratorGraphs, startNodeId \in {"n1", "n2"},
          walkLength \in 1..MaxAcceleratorCount,
          draws \in [1..MaxAcceleratorCount -> 0..(RandomSteps - 1)],
          answer \in AcceleratorAnswers :
           AcceleratorClient_randomWalkSample(data, startNodeId, walkLength, 1,
                                              draws, answer)
    \/ \E data \in AcceleratorGraphs,
          startNodeIds \in SeqsUpTo({"n1", "n3"}, MaxAcceleratorCount),
          maxNodes \in 0..MaxAcceleratorCount, answer \in AcceleratorAnswers :
           AcceleratorClient_frontierSample(data, startNodeIds, maxNodes, answer)

SpecAccelerator == AcceleratorInit /\ [][AcceleratorNext]_vars

IsSampleCall(c) == c.op \in {"randomSample", "randomWalkSample", "frontierSample"}

\* C24: randomSample, randomWalkSample and frontierSample of the client always
\* resolve with a sample and never reject; whenever the accelerator is not
\* available, answers with an error response or does not answer before the
\* timeout, the sample is the result of the TypeScript fallback.
C24_SamplesFallBack ==
    [][IsSampleCall(call')
          => /\ call'.outcome = "resolved"
             /\ DOMAIN ret' = {"sampledNodes", "sampledEdges"}
             /\ (~arg.available \/ call'.answer \in {"error", "timeout"})
                   => call'.from = "fallback" /\ ret' = call'.fallback]_vars

\* With the child process running but the client not available, a random walk
\* resolved with the nodes the fallback visited.
C24_Witness ==
    /\ call.op = "randomWalkSample" /\ call.outcome = "resolved"
    /\ arg.process = "running" /\ ~arg.available
    /\ call.from = "fallback"
    /\ Len(ret.sampledNodes) = 2

(***************************************************************************)
(* query/query-builder.ts: the builders behind QueryBuilder.  A builder is *)
(* the record of its kind and of the fields limit(), offset(), depth() and *)
(* maxLength() assign; the other setters assign fields that these methods  *)
(* and the clamps never read.                                              *)
(***************************************************************************)
DEFAULT_LIMIT == 100
MAX_LIMIT == 1000

Max(a, b) == IF a > b THEN a ELSE b

\* new NodeQueryBuilder(), new EdgeQueryBuilder(), new SearchQueryBuilder(text).
PagedQueryBuilder(kind) ==
    [kind |-> kind, limit |-> DEFAULT_LIMIT, offset |-> 0]

NeighborhoodQueryBuilder ==
    [kind |-> "neighborhood", depth |-> 1, limit |-> DEFAULT_LIMIT, offset |-> 0]

PathQueryBuilder ==
    [kind |-> "path", maxLength |-> 10, limit |-> 10, offset |-> 0]

\* limit() that stores its argument as it is.
limitUnclamped(builder, n) == [builder EXCEPT !.limit = n]

\* limit(n) of the five builders; PathQueryBuilder caps at 100.
limit(builder, n) ==
    [builder EXCEPT !.limit = IF builder.kind = "path"
                              THEN Min(Max(1, n), 100)
                              ELSE Min(Max(1, n), MAX_LIMIT)]

offset(builder, n) == [builder EXCEPT !.offset = Max(0, n)]

depth(builder, n) == [builder EXCEPT !.depth = Min(Max(1, n), 5)]

maxLength(builder, n) == [builder EXCEPT !.maxLength = Min(Max(1, n), 20)]

\* build(): the fields of the query that come from the fields above.
build(builder) ==
    IF builder.kind = "neighborhood"
    THEN [type |-> "neighborhood", depth |-> builder.depth,
          limit |-> builder.limit, offset |-> builder.offset]
    ELSE IF builder.kind = "path"
    THEN [type |-> "path", maxLength |-> builder.maxLength,
          limit |-> builder.limit, offset |-> builder.offset]
    ELSE [type |-> builder.kind, limit |-> builder.limit, offset |-> builder.offset]

(***************************************************************************)
(* SpecBuilder: one builder (held in arg) made by a factory of             *)
(* QueryBuilder, then any sequence of limit, offset, depth, maxLength and  *)
(* build.  A factory returns the builder and a setter returns this;       *)
(* call.set holds the setters called on the builder so far.                *)
(***************************************************************************)
MaxBuilderArg == 5000

\* Integers on both sides of every clamp.
BuilderArgs ==
    {0 - MaxBuilderArg, 0, 1, 6, 21, 50, 501, 1001, MaxBuilderArg}

BuilderInit ==
    /\ arg = [kind |-> "none"]
    /\ ret = <<>>
    /\ call = [op |-> "none", set |-> {}]
    /\ IdleSession /\ IdleManager /\ IdleCache /\ IdleClock

idleInBuilder == <<sessionVars, managerVars, cm, now>>

QueryBuilder_nodes ==
    /\ arg' = PagedQueryBuilder("node")
    /\ call' = [op |-> "nodes", set |-> {}]
    /\ ret' = arg'
    /\ UNCHANGED idleInBuilder

QueryBuilder_edges ==
    /\ arg' = PagedQueryBuilder("edge")
    /\ call' = [op |-> "edges", set |-> {}]
    /\ ret' = arg'
    /\ UNCHANGED idleInBuilder

QueryBuilder_search ==
    /\ arg' = PagedQueryBuilder("search")
    /\ call' = [op |-> "search", set |-> {}]
    /\ ret' = arg'
    /\ UNCHANGED idleInBuilder

QueryBuilder_neighborhood ==
    /\ arg' = NeighborhoodQueryBuilder
    /\ call' = [op |-> "neighborhood", set |-> {}]
    /\ ret' = arg'
    /\ UNCHANGED idleInBuilder

QueryBuilder_path ==
    /\ arg' = PathQueryBuilder
    /\ call' = [op |-> "path", set |-> {}]
    /\ ret' = arg'
    /\ UNCHANGED idleInBuilder

Builder_limit(n) ==
    /\ arg.kind # "none"
    /\ arg' = limit(arg, n)
    /\ call' = [op |-> "limit", set |-> call.set \cup {"limit"}]
    /\ ret' = arg'
    /\ UNCHANGED idleInBuilder

Builder_offset(n) ==
    /\ arg.kind # "none"
    /\ arg' = offset(arg, n)
    /\ call' = [op |-> "offset", set |-> call.set \cup {"offset"}]
    /\ ret' = arg'
    /\ UNCHANGED idleInBuilder

Builder_depth(n) ==
    /\ arg.kind = "neighborhood"
    /\ arg' = depth(arg, n)
    /\ call' = [op |-> "depth", set |-> call.set \cup {"depth"}]
    /\ ret' = arg'
    /\ UNCHANGED idleInBuilder

Builder_maxLength(n) ==
    /\ arg.kind = "path"
    /\ arg' = maxLength(arg, n)
    /\ call' = [op |-> "maxLength", set |-> call.set \cup {"maxLength"}]
    /\ ret' = arg'
    /\ UNCHANGED idleInBuilder

Builder_build ==
    /\ arg.kind # "none"
    /\ ret' = build(arg)
    /\ call' = [op |-> "build", set |-> call.set]
    /\ UNCHANGED <<arg, idleInBuilder>>

BuilderNext ==
    \/ QueryBuilder_nodes
    \/ QueryBuilder_edges
    \/ QueryBuilder_search
    \/ QueryBuilder_neighborhood
    \/ QueryBuilder_path
    \/ \E n \in BuilderArgs : Builder_limit(n)
    \/ \E n \in BuilderArgs : Builder_offset(n)
    \/ \E n \in BuilderArgs : Builder_depth(n)
    \/ \E n \in BuilderArgs : Builder_maxLength(n)
    \/ Builder_build

SpecBuilder == BuilderInit /\ [][BuilderNext]_vars

\* C25: whatever limit(), offset(), depth() and maxLength() calls with integer
\* arguments precede build(), a built node, edge or search query has
\* 1 <= limit <= 1000 and offset >= 0 (limit 100 and offset 0 when never set),
\* a built neighborhood query has 1 <= depth <= 5 and a built path query has
\* 1 <= maxLength <= 20.
C25_BuiltQueryIsClamped ==
    call.op = "build" =>
        /\ ret.type \in {"node", "edge", "search"} =>
              /\ 1 <= ret.limit /\ ret.limit <= 1000
              /\ ret.offset >= 0
              /\ "limit" \notin call.set => ret.limit = 100
              /\ "offset" \notin call.set => ret.offset = 0
        /\ ret.type = "neighborhood" => 1 <= ret.depth /\ ret.depth <= 5
        /\ ret.type = "path" => 1 <= ret.maxLength /\ ret.maxLength <= 20

\* A search query built after limit() was given more than 1000: it carries
\* limit 1000 and the offset that was set.
C25_Witness ==
    /\ call.op = "build" /\ call.set = {"limit", "offset"}
    /\ ret.type = "search" /\ ret.limit = 1000 /\ ret.offset = 50

\* C26: a neighborhood query built through QueryBuilder.neighborhood never
\* carries a limit greater than 500, whatever argument is passed to limit().
C26_NeighborhoodLimitAtMost500 ==
    (call.op = "build" /\ ret.type = "neighborhood") => ret.limit <= 500

(***************************************************************************)
(* Replaying the patch history of a GraphSession.                          *)
(***************************************************************************)
\* applyPatch over the patches in order, from the graph s.
RECURSIVE ReplayPatches(_, _)
ReplayPatches(s, patches) ==
    IF patches = <<>> THEN s
    ELSE ReplayPatches(applyPatch(s, Head(patches)), Tail(patches))

\* C27: for a GraphSession created empty, after any sequence of addNodes,
\* addEdges, removeNodes, executeQuery, undo and redo, applying the patches of
\* patchHistory in order to the empty graph yields exactly the session graph
\* (the same nodes and edges, in whatever order the arrays hold them).
C27_HistoryReplaysToGraph ==
    GraphView(ReplayPatches(EmptyGraph, patchHistory)) = GraphView(state)

(***************************************************************************)
(* The total ceilings of a GraphSession and the entries of a batch whose   *)
(* id the session does not hold yet.                                       *)
(***************************************************************************)
\* The number of entries of batch whose id is not among existing.
NetNew(existing, batch) ==
    Len(SelectSeq(batch, LAMBDA x : x.id \notin Ids(existing)))

\* C28: the total-ceiling check counts only the entries of a batch whose id is
\* not already in the session: addNodes, addEdges and the merge of executeQuery
\* are rejected for maxNodes/maxEdges iff the existing count plus the number of
\* net-new entries exceeds the ceiling, so a batch made only of ids already
\* present is never rejected.
C28_CeilingCountsNetNew ==
    [][/\ \A nodes \in SeqsUpTo(SessionNodes, MaxBatch) :
             addNodes(nodes) =>
                 (call'.outcome = "LimitExceededError"
                     <=> Len(state.nodes) + NetNew(state.nodes, nodes)
                            > sessionConfig.maxNodes)
       /\ \A edges \in SeqsUpTo(SessionEdges, MaxBatch) :
             addEdges(edges) =>
                 (call'.outcome = "LimitExceededError"
                     <=> Len(state.edges) + NetNew(state.edges, edges)
                            > sessionConfig.maxEdges)
       /\ Answered(call') =>
             (call'.outcome = "LimitExceededError"
                 <=> \/ Len(state.nodes) + NetNew(state.nodes, call'.data.nodes)
                           > sessionConfig.maxNodes
                     \/ Len(state.edges) + NetNew(state.edges, call'.data.edges)
                           > sessionConfig.maxEdges)]_vars

(***************************************************************************)
(* What a resolved executeQuery returns and what the session graph holds.  *)
(***************************************************************************)
\* The call resolved: from the cache, or from the connector with the merge.
Resolved(c) ==
    c.op = "executeQuery" /\ c.outcome \in {"cached", "merged", "unchanged"}

\* C29: whenever GraphSession.executeQuery resolves, every node and edge of the
\* returned data is present (by id) in the session graph, whatever operations
\* came before, undo(), removeNodes() or another query between two executions
\* of the same query included.
C29_ReturnedDataIsInGraph ==
    [][Resolved(call')
          => /\ Ids(call'.data.nodes) \subseteq Ids(state'.nodes)
             /\ Ids(call'.data.edges) \subseteq Ids(state'.edges)]_vars

(***************************************************************************)
(* SpecInflight: GraphSession.executeQuery as the two steps its await      *)
(* makes.  executeQuery_call runs up to the await of                       *)
(* connector.executeQuery; executeQuery_resume runs from the connector's   *)
(* answer to the end.  arg holds the suspended calls, one per slot: <<>>   *)
(* for a free slot, <<[cacheKey]>> for a call awaiting the connector.      *)
(***************************************************************************)
MaxInFlight == 2

InflightQueries ==
    {<<<<"type", "getNode">>, <<"nodeId", "n1">>>>,
     <<<<"type", "getNode">>, <<"nodeId", "n2">>>>}

InflightInit ==
    /\ state = EmptyGraph
    /\ patchHistory = <<>>
    /\ undoStack = <<>>
    /\ limiter = [nodeCount |-> 0, edgeCount |-> 0]
    /\ lru = LRU_new
    /\ connector = Undefined
    /\ now = 0
    /\ call = [op |-> "new", outcome |-> "ok"]
    /\ arg = [slot \in 1..MaxInFlight |-> <<>>]
    /\ ret = <<>>
    /\ IdleManager /\ IdleCache

\* The calls awaiting the connector.
InFlight == {slot \in DOMAIN arg : arg[slot] # <<>>}

\* executeQuery up to the await: the connector test, the cache lookup and, on
\* a miss, the call of connector.executeQuery, whose answer is awaited.
executeQuery_call(slot, query) ==
    /\ arg[slot] = <<>>
    /\ UNCHANGED <<state, patchHistory, undoStack, limiter, connector, now,
                   ret, graph, queryCount, cm>>
    /\ IF connector = Undefined
       THEN /\ call' = [op |-> "executeQuery", outcome |-> "ValidationError"]
            /\ UNCHANGED <<lru, arg>>
       ELSE
       LET cacheKey == generateQueryCacheKey(connector, PropGet(query, "type"), query)
           cached   == LRU_get(lru, queryCacheConfig, cacheKey, now)
       IN  /\ lru.stats.hits + lru.stats.misses < MaxLookups
           /\ lru' = cached.lru
           /\ IF cached.hit
              THEN /\ call' = [op |-> "executeQuery", outcome |-> "cached"]
                   /\ UNCHANGED arg
              ELSE /\ call' = [op |-> "executeQuery", outcome |-> "awaiting"]
                   /\ arg' = [arg EXCEPT ![slot] = <<[cacheKey |-> cacheKey]>>]

\* executeQuery from the connector's answer on: the filter against the graph
\* as it is now, the two limit checks, mergeData and cache.set.
executeQuery_resume(slot, response) ==
    /\ arg[slot] # <<>>
    /\ arg' = [arg EXCEPT ![slot] = <<>>]
    /\ UNCHANGED <<connector, now, ret, graph, queryCount, cm>>
    /\ LET cacheKey == arg[slot][1].cacheKey
           newNodes == SelectSeq(response.data.nodes,
                                 LAMBDA n : ~\E i \in DOMAIN state.nodes :
                                                state.nodes[i].id = n.id)
           newEdges == SelectSeq(response.data.edges,
                                 LAMBDA e : ~\E i \in DOMAIN state.edges :
                                                state.edges[i].id = e.id)
           newState == mergedState(response.data)
           others   == Cardinality(InFlight \ {slot})
       IN  IF response.rejects
           THEN /\ call' = [op |-> "resume", outcome |-> "ConnectionError",
                            key |-> cacheKey, others |-> others]
                /\ UNCHANGED <<state, patchHistory, undoStack, limiter, lru>>
           ELSE IF \/ ~checkNodeLimit(limiter, sessionConfig, Len(newNodes)).allowed
                   \/ ~checkEdgeLimit(limiter, sessionConfig, Len(newEdges)).allowed
           THEN /\ call' = [op |-> "resume", outcome |-> "LimitExceededError",
                            key |-> cacheKey, others |-> others]
                /\ UNCHANGED <<state, patchHistory, undoStack, limiter, lru>>
           ELSE /\ lru' = LRU_set(lru, queryCacheConfig, cacheKey, response.data, now)
                /\ IF ~isPatchEmpty(calculatePatch(state, newState))
                   THEN /\ Len(patchHistory) < MaxHistory
                        /\ Commit(newState)
                        /\ call' = [op |-> "resume", outcome |-> "merged",
                                    key |-> cacheKey, others |-> others]
                   ELSE /\ call' = [op |-> "resume", outcome |-> "unchanged",
                                    key |-> cacheKey, others |-> others]
                        /\ UNCHANGED <<state, patchHistory, undoStack, limiter>>

InflightNext ==
    \/ \E c \in SessionConnectors, rejects \in BOOLEAN : connect(c, rejects)
    \/ \E slot \in 1..MaxInFlight, q \in InflightQueries : executeQuery_call(slot, q)
    \/ \E slot \in 1..MaxInFlight, r \in ConnectorResponses :
           executeQuery_resume(slot, r)
    \/ Tick

SpecInflight == InflightInit /\ [][InflightNext]_vars

\* C30: for any interleaving of executeQuery calls in flight on one session,
\* each suspended only while it awaits the connector, the session graph never
\* holds more than maxNodes nodes or maxEdges edges, and after each call's
\* merge step the limiter counts equal the sizes of the graph.
C30_InflightWithinLimits ==
    /\ Len(state.nodes) <= sessionConfig.maxNodes
    /\ Len(state.edges) <= sessionConfig.maxEdges
    /\ (call.op = "resume" /\ call.outcome \in {"merged", "unchanged"})
          => /\ limiter.nodeCount = Len(state.nodes)
             /\ limiter.edgeCount = Len(state.edges)

\* Two calls of the same query were in flight together: the one that resumed
\* first filled the graph and cached its result; the other, which had missed
\* the cache before that, resumed on the full graph and was refused.
C30_Witness ==
    /\ call.op = "resume" /\ call.outcome = "LimitExceededError"
    /\ now = 0
    /\ MapHas(lru.cache, call.key)
    /\ Len(state.nodes) = sessionConfig.maxNodes

(***************************************************************************)
(* The running totals of the LimitsEnforcer of a GraphSession.             *)
(***************************************************************************)
\* C31: after every GraphSession operation (addNodes, addEdges, removeNodes,
\* executeQuery, undo, redo, clear, fromJSON) the LimitsEnforcer's nodeCount
\* and edgeCount equal the numbers of nodes and edges of the session graph.
C31_CountsEqualGraphSizes ==
    limiter = [nodeCount |-> Len(state.nodes), edgeCount |-> Len(state.edges)]

\* An undo gave back two nodes and an edge that removeNodes had taken away.
C31_Witness ==
    /\ call.op = "undo" /\ call.outcome = "patch"
    /\ Len(state.nodes) = 2 /\ Len(state.edges) = 1
    /\ Len(call.before.nodes) = 1

(***************************************************************************)
(* GraphSession.connect with a connector whose connect() rejects.          *)
(***************************************************************************)
\* C32: if connector.connect() rejects during GraphSession.connect(connector)
\* on a session with no connector, the session remains disconnected:
\* getConnector() returns null afterwards and an executeQuery that follows
\* rejects with ValidationError.
C32_FailedConnectStaysDisconnected ==
    [][/\ (connector = Undefined /\ call'.op = "connect"
              /\ call'.outcome = "rejected")
            => connector' = Undefined
       /\ (call.op = "connect" /\ call.outcome = "rejected"
              /\ call'.op = "executeQuery")
            => call'.outcome = "ValidationError"]_vars

(***************************************************************************)
(* The number of entries a CacheManager holds.                             *)
(***************************************************************************)
\* C33: after any sequence of set/get/has/delete/clear/prune calls a
\* CacheManager configured with maxEntries >= 1 holds at most maxEntries
\* entries (as an LRUCache holds at most maxSize), and overwriting a key that
\* is already present never evicts another entry.
C33_CacheWithinMaxEntries ==
    [][/\ Len(cm'.cache) <= cacheConfig.maxEntries
       /\ (call'.op = "set" /\ MapHas(cm.cache, call'.key))
             => /\ Ids(cm'.cache) = Ids(cm.cache)
                /\ cm'.evictions = cm.evictions]_vars

(***************************************************************************)
(* cache/index.ts: the remaining methods of LRUCache, and SpecLru: one     *)
(* LRUCache (held in lru) under set, get, has, delete, clear, prune and    *)
(* the clock.                                                              *)
(***************************************************************************)
\* LRUCache.has at time t: the cache afterwards and the answer.
LRU_has(c, config, key, t) ==
    IF ~MapHas(c.cache, key) THEN [lru |-> c, has |-> FALSE]
    ELSE IF t - MapGet(c.cache, key).timestamp > config.ttlMs
    THEN [lru |-> [c EXCEPT !.cache = MapDelete(@, key), !.stats.size = @ - 1],
          has |-> FALSE]
    ELSE [lru |-> c, has |-> TRUE]

LRU_delete(c, key) ==
    IF MapHas(c.cache, key)
    THEN [lru |-> [c EXCEPT !.cache = MapDelete(@, key), !.stats.size = @ - 1],
          deleted |-> TRUE]
    ELSE [lru |-> c, deleted |-> FALSE]

\* LRUCache.prune at time t: the cache afterwards and the number pruned.
LRU_prune(c, config, t) ==
    LET kept == SelectSeq(c.cache, LAMBDA e : ~(t - e.timestamp > config.ttlMs))
    IN  [lru |-> [c EXCEPT !.cache = kept, !.stats.size = Len(kept)],
         pruned |-> Len(c.cache) - Len(kept)]

LruMaxSize == 2
LruTtl == 1
MaxLruLookups == 2
MaxLruEvictions == 2
MaxLruStatSize == 4

lruConfig == [maxSize |-> LruMaxSize, ttlMs |-> LruTtl]

LruKeys == {"a", "b", "c"}

LruInit ==
    /\ lru = LRU_new
    /\ state = EmptyGraph /\ patchHistory = <<>> /\ undoStack = <<>>
    /\ limiter = [nodeCount |-> 0, edgeCount |-> 0]
    /\ connector = Undefined
    /\ now = 0
    /\ call = [op |-> "new", outcome |-> "ok"]
    /\ IdleFn /\ IdleManager /\ IdleCache

idleInLru == <<arg, ret, state, patchHistory, undoStack, limiter, connector,
               graph, queryCount, cm, now>>

LRUCache_set(key, value) ==
    /\ lru.stats.evictions < MaxLruEvictions
    /\ lru.stats.size < MaxLruStatSize
    /\ lru' = LRU_set(lru, lruConfig, key, value, now)
    /\ call' = [op |-> "set", outcome |-> "ok"]
    /\ UNCHANGED idleInLru

LRUCache_get(key) ==
    /\ lru.stats.hits + lru.stats.misses < MaxLruLookups
    /\ lru' = LRU_get(lru, lruConfig, key, now).lru
    /\ call' = [op |-> "get",
                outcome |-> IF LRU_get(lru, lruConfig, key, now).hit
                            THEN "hit" ELSE "miss"]
    /\ UNCHANGED idleInLru

LRUCache_has(key) ==
    /\ lru' = LRU_has(lru, lruConfig, key, now).lru
    /\ call' = [op |-> "has",
                outcome |-> IF LRU_has(lru, lruConfig, key, now).has
                            THEN "true" ELSE "false"]
    /\ UNCHANGED idleInLru

LRUCache_delete(key) ==
    /\ lru' = LRU_delete(lru, key).lru
    /\ call' = [op |-> "delete",
                outcome |-> IF LRU_delete(lru, key).deleted THEN "true" ELSE "false"]
    /\ UNCHANGED idleInLru

LRUCache_clear ==
    /\ lru' = LRU_clear(lru)
    /\ call' = [op |-> "clear", outcome |-> "ok"]
    /\ UNCHANGED idleInLru

LRUCache_prune ==
    /\ lru' = LRU_prune(lru, lruConfig, now).lru
    /\ call' = [op |-> "prune", outcome |-> "ok"]
    /\ UNCHANGED idleInLru

LruNext ==
    \/ \E key \in LruKeys, value \in CacheValues : LRUCache_set(key, value)
    \/ \E key \in LruKeys : LRUCache_get(key)
    \/ \E key \in LruKeys : LRUCache_has(key)
    \/ \E key \in LruKeys : LRUCache_delete(key)
    \/ LRUCache_clear
    \/ LRUCache_prune
    \/ Tick

SpecLru == LruInit /\ [][LruNext]_vars

\* C34: after any sequence of LRUCache set/get/has/delete/clear/prune calls,
\* set on a key that is already present included, getStats().size equals the
\* number of entries stored in the cache.
C34_StatsSizeIsEntryCount ==
    lru.stats.size = Len(lru.cache)

(***************************************************************************)
(* patch/index.ts: mergePatches.                                           *)
(***************************************************************************)
\* The entry that stands for the entries of one id, or none.
ConsolidateOne(patches, id) ==
    LET ofId  == SelectSeq(patches, LAMBDA p : p.entity.id = id)
        first == ofId[1]
        last  == ofId[Len(ofId)]
    IN  IF Len(ofId) = 1 THEN <<ofId[1]>>
        ELSE IF first.operation = "add" /\ last.operation = "remove" THEN <<>>
        ELSE IF first.operation = "remove" /\ last.operation = "add"
        THEN <<[operation |-> "update", entity |-> last.entity]>>
        ELSE <<last>>

\* The loop over byId, whose keys are in the order of their first entry.
RECURSIVE ConsolidateIds(_, _)
ConsolidateIds(patches, byId) ==
    IF byId = <<>> THEN <<>>
    ELSE ConsolidateOne(patches, Head(byId).id) \o ConsolidateIds(patches, Tail(byId))

consolidateNodePatches(patches) ==
    ConsolidateIds(patches, MapFrom([i \in DOMAIN patches |->
                                        [id |-> patches[i].entity.id]]))

consolidateEdgePatches(patches) ==
    ConsolidateIds(patches, MapFrom([i \in DOMAIN patches |->
                                        [id |-> patches[i].entity.id]]))

RECURSIVE AllNodePatches(_)
AllNodePatches(patches) ==
    IF patches = <<>> THEN <<>>
    ELSE Head(patches).nodePatch \o AllNodePatches(Tail(patches))

RECURSIVE AllEdgePatches(_)
AllEdgePatches(patches) ==
    IF patches = <<>> THEN <<>>
    ELSE Head(patches).edgePatch \o AllEdgePatches(Tail(patches))

mergePatches(patches) ==
    [nodePatch |-> consolidateNodePatches(AllNodePatches(patches)),
     edgePatch |-> consolidateEdgePatches(AllEdgePatches(patches))]

(***************************************************************************)
(* SpecMerge: snapshots S0 .. Sn of the universe below, the patches        *)
(* calculatePatch gives from each to the next, and their merge.            *)
(***************************************************************************)
MaxMergePatches == 3

MergeGraphs ==
    {[nodes |-> n1 \o n2, edges |-> e1] :
        n1 \in {<<>>, <<Node("n1", <<"A">>, K("NaN"))>>,
                <<Node("n1", <<"A">>, K("null"))>>},
        n2 \in {<<>>, <<Node("n2", <<"A">>, NoProps)>>},
        e1 \in {<<>>, <<Edge("e1", "n1", "n2", "T", NoProps)>>,
                <<Edge("e1", "n2", "n2", "U", NoProps)>>}}

MergeInit ==
    /\ arg \in UNION {[1..(n + 1) -> MergeGraphs] : n \in 1..MaxMergePatches}
    /\ ret = <<>>
    /\ call = [op |-> "none"]
    /\ IdleSession /\ IdleManager /\ IdleCache /\ IdleClock

\* Pi = calculatePatch(S(i-1), Si) for the snapshots.
PatchesBetween(snapshots) ==
    [i \in 1..(Len(snapshots) - 1) |-> calculatePatch(snapshots[i], snapshots[i + 1])]

Merge ==
    /\ call.op = "none"
    /\ ret' = [merged |-> applyPatch(arg[1], mergePatches(PatchesBetween(arg))),
               oneByOne |-> ReplayPatches(arg[1], PatchesBetween(arg))]
    /\ call' = [op |-> "merge"]
    /\ UNCHANGED <<arg, sessionVars, managerVars, cm, now>>

MergeNext == Merge

SpecMerge == MergeInit /\ [][MergeNext]_vars

\* C35: for snapshots S0 .. Sn and Pi = calculatePatch(S(i-1), Si), applying
\* mergePatches([P1 .. Pn]) to S0 with applyPatch yields exactly the nodes and
\* edges of Sn: the merged patch has the net effect of the patches applied one
\* after another.
C35_MergedPatchYieldsLast ==
    call.op = "merge" =>
        /\ GraphView(ret.merged) = GraphView(arg[Len(arg)])
        /\ GraphView(ret.merged) = GraphView(ret.oneByOne)

(***************************************************************************)
(* SpecUpdate: PatchEngine.apply on every graph and every list of          *)
(* operations of the universe below, most of them updates.                 *)
(***************************************************************************)
MaxUpdateNodes == 2
MaxUpdateEdges == 1
MaxUpdateOps == 2

UpdateProps == {NoProps, K("1"), <<<<"k", "1">>, <<"j", "1">>>>}

UpdateDeltas == {NoProps, K("2"), <<<<"j", "2">>>>, <<<<"j", "2">>, <<"k", "undefined">>>>}

UpdateNodesUniverse ==
    {Node("n1", <<"A">>, p) : p \in UpdateProps} \cup {Node("n2", <<"B">>, K("1"))}

UpdateEdgesUniverse ==
    {Edge("e1", "n1", "n2", "T", p) : p \in UpdateProps}

UpdateGraphs ==
    GraphsOver(UpdateNodesUniverse, UpdateEdgesUniverse, MaxUpdateNodes, MaxUpdateEdges)

UpdateOps ==
    {[op |-> "update", type |-> "node", nodeId |-> id, properties |-> d] :
        id \in {"n1", "n2"}, d \in UpdateDeltas}
    \cup {[op |-> "update", type |-> "edge", edgeId |-> "e1", properties |-> d] :
        d \in UpdateDeltas}
    \cup {[op |-> "remove", type |-> "node", nodeId |-> "n1"]}
    \cup {[op |-> "add", type |-> "node", node |-> Node("n1", <<"A">>, K("1"))]}

UpdateInit ==
    /\ arg \in [graph : UpdateGraphs, ops : SeqsUpTo(UpdateOps, MaxUpdateOps)]
    /\ ret = <<>>
    /\ call = [op |-> "none"]
    /\ IdleSession /\ IdleManager /\ IdleCache /\ IdleClock

\* PatchEngine.apply(graph, {operations: ops}): the working maps after each
\* operation (steps[k] after the first k) and the graph returned.
UpdateByApply ==
    /\ call.op = "none"
    /\ ret' = [steps |-> [k \in 0..Len(arg.ops) |->
                             PE_applyLoop(arg.graph, arg.ops, k)],
               graph |-> PE_apply(arg.graph, [operations |-> arg.ops]).graph]
    /\ call' = [op |-> "apply"]
    /\ UNCHANGED <<arg, sessionVars, managerVars, cm, now>>

UpdateNext == UpdateByApply

SpecUpdate == UpdateInit /\ [][UpdateNext]_vars

PropKeys(p) == {p[i][1] : i \in DOMAIN p}

\* The entity after an update by delta: the delta's keys hold the delta's
\* values, every other key its old value, and nothing else of it differs.
UpdatedBy(old, new, delta) ==
    /\ PropKeys(new.properties) = PropKeys(old.properties) \cup PropKeys(delta)
    /\ \A key \in PropKeys(delta) :
          PropGet(new.properties, key) = PropGet(delta, key)
    /\ \A key \in PropKeys(old.properties) \ PropKeys(delta) :
          PropGet(new.properties, key) = PropGet(old.properties, key)
    /\ [new EXCEPT !.properties = <<>>] = [old EXCEPT !.properties = <<>>]

\* Map after is map before with the entity id updated by delta, the others as
\* they were.
MapUpdatedBy(before, after, id, delta) ==
    /\ Len(after) = Len(before)
    /\ \A i \in DOMAIN before :
          IF before[i].id = id
          THEN after[i].id = id /\ UpdatedBy(before[i], after[i], delta)
          ELSE after[i] = before[i]

IsUpdate(o) == o.op = "update"

\* Operation number k is an update of an entity that is present when its turn comes.
UpdatesPresent(k) ==
    /\ IsUpdate(arg.ops[k])
    /\ IF arg.ops[k].type = "node"
       THEN MapHas(ret.steps[k - 1].nodeMap, arg.ops[k].nodeId)
       ELSE MapHas(ret.steps[k - 1].edgeMap, arg.ops[k].edgeId)

UpdateFrame ==
    call.op = "apply" =>
        \A k \in 1..Len(arg.ops) :
            UpdatesPresent(k) =>
                IF arg.ops[k].type = "node"
                THEN /\ MapUpdatedBy(ret.steps[k - 1].nodeMap, ret.steps[k].nodeMap,
                                     arg.ops[k].nodeId, arg.ops[k].properties)
                     /\ ret.steps[k].edgeMap = ret.steps[k - 1].edgeMap
                ELSE /\ MapUpdatedBy(ret.steps[k - 1].edgeMap, ret.steps[k].edgeMap,
                                     arg.ops[k].edgeId, arg.ops[k].properties)
                     /\ ret.steps[k].nodeMap = ret.steps[k - 1].nodeMap

\* C36: an update operation applied to a present node or edge sets each key of
\* the delta to its new value and leaves every other property key of that
\* entity, its id, labels, endpoints and type, and every other entity of the
\* graph as they were; and the call leaves the graph it was given as it was.
C36_UpdateChangesOnlyDeltaKeys ==
    [][UpdateByApply => (arg' = arg /\ UpdateFrame')]_vars

\* An update of node n1 that holds k and j, with a delta for j alone, in a
\* graph that also holds n2 and e1: j is new, k is as it was.
C36_Witness ==
    /\ call.op = "apply"
    /\ Len(arg.graph.nodes) = 2 /\ Len(arg.graph.edges) = 1
    /\ \E k \in 1..Len(arg.ops) :
          /\ UpdatesPresent(k) /\ arg.ops[k].type = "node"
          /\ arg.ops[k].properties = <<<<"j", "2">>>>
          /\ PropGet(MapGet(ret.steps[k - 1].nodeMap, arg.ops[k].nodeId).properties, "k") = "1"
          /\ PropGet(MapGet(ret.steps[k - 1].nodeMap, arg.ops[k].nodeId).properties, "j") = "1"
          /\ PropGet(MapGet(ret.steps[k].nodeMap, arg.ops[k].nodeId).properties, "k") = "1"
          /\ PropGet(MapGet(ret.steps[k].nodeMap, arg.ops[k].nodeId).properties, "j") = "2"

(***************************************************************************)
(* connectors/src/mock/mock-data.ts and unnamed/part_002: expansion of a   *)
(* node's neighbourhood                                                    *)
(***************************************************************************)
\* edgesBySource.get(nodeId) ?? [] and edgesByTarget.get(nodeId) ?? []
EdgesBySource(data, nodeId) == SelectSeq(data.edges, LAMBDA e : e.source = nodeId)

EdgesByTarget(data, nodeId) == SelectSeq(data.edges, LAMBDA e : e.target = nodeId)

\* The edges handleGetNeighbors(nodeId, direction) returns, no edge types and
\* no limit given.
handleGetNeighbors(data, nodeId, direction) ==
    (IF direction \in {"outgoing", "both"} THEN EdgesBySource(data, nodeId) ELSE <<>>)
    \o (IF direction \in {"incoming", "both"} THEN EdgesByTarget(data, nodeId) ELSE <<>>)

\* `limit ? a : b` for an optional number, <<>> (undefined) or <<n>>.
LimitGiven(lim) == lim # <<>> /\ lim[1] # 0

\* The loop over neighbors.edges in handleExpandNode.
RECURSIVE ExpandEdges(_, _, _)
ExpandEdges(edges, current, w) ==
    IF edges = <<>> THEN w
    ELSE LET edge   == Head(edges)
             nextId == IF edge.source = current.id THEN edge.target ELSE edge.source
         IN  IF edge.id \in w.visitedEdges
             THEN ExpandEdges(Tail(edges), current, w)
             ELSE ExpandEdges(Tail(edges), current,
                    [w EXCEPT !.visitedEdges = @ \cup {edge.id},
                              !.queue = IF nextId \in w.visitedNodes THEN @
                                        ELSE Append(@, [id |-> nextId,
                                                        depth |-> current.depth + 1])])

\* The while loop of handleExpandNode.
RECURSIVE ExpandLoop(_, _, _, _, _)
ExpandLoop(data, direction, maxHops, lim, w) ==
    IF w.queue = <<>> THEN w
    ELSE LET current == Head(w.queue)
             rest    == [w EXCEPT !.queue = Tail(@)]
             added   == [rest EXCEPT !.visitedNodes = @ \cup {current.id}]
         IN  IF current.id \in w.visitedNodes \/ current.depth > maxHops
             THEN ExpandLoop(data, direction, maxHops, lim, rest)
             ELSE IF LimitGiven(lim) /\ Cardinality(added.visitedNodes) >= lim[1]
             THEN added
             ELSE ExpandLoop(data, direction, maxHops, lim,
                             ExpandEdges(handleGetNeighbors(data, current.id, direction),
                                         current, added))

handleExpandNode(data, nodeId, direction, maxHops, lim) ==
    LET w == ExpandLoop(data, direction, maxHops, lim,
                        [visitedNodes |-> {}, visitedEdges |-> {},
                         queue |-> <<[id |-> nodeId, depth |-> 0]>>])
    IN  [nodes |-> SelectSeq(data.nodes, LAMBDA n : n.id \in w.visitedNodes),
         edges |-> SelectSeq(data.edges, LAMBDA e : e.id \in w.visitedEdges)]

\* The loop over edges in handleNeighborhoodQuery, no neighbour labels given.
RECURSIVE NeighborhoodEdges(_, _, _)
NeighborhoodEdges(edges, current, w) ==
    IF edges = <<>> THEN w
    ELSE LET edge     == Head(edges)
             neighbor == IF edge.source = current.id THEN edge.target ELSE edge.source
         IN  NeighborhoodEdges(Tail(edges), current,
                [w EXCEPT !.visitedEdges = @ \cup {edge.id},
                          !.queue = IF neighbor \in w.visited THEN @
                                    ELSE Append(@, [id |-> neighbor,
                                                    depth |-> current.depth + 1])])

\* The while loop of handleNeighborhoodQuery.
RECURSIVE NeighborhoodLoop(_, _, _, _)
NeighborhoodLoop(data, direction, maxDepth, w) ==
    IF w.queue = <<>> THEN w
    ELSE LET current == Head(w.queue)
             rest    == [w EXCEPT !.queue = Tail(@)]
             added   == [rest EXCEPT !.visited = @ \cup {current.id}]
         IN  IF current.id \in w.visited
             THEN NeighborhoodLoop(data, direction, maxDepth, rest)
             ELSE IF current.depth >= maxDepth
             THEN NeighborhoodLoop(data, direction, maxDepth, added)
             ELSE NeighborhoodLoop(data, direction, maxDepth,
                     NeighborhoodEdges(handleGetNeighbors(data, current.id, direction),
                                       current, added))

\* handleNeighborhoodQuery(query) for a query with no edge types and no
\* neighbour labels; query.limit is not read.
handleNeighborhoodQuery(data, query) ==
    LET maxDepth  == IF query.depth = <<>> THEN 1 ELSE query.depth[1]
        direction == IF query.direction = <<>> THEN "both" ELSE query.direction[1]
        w == NeighborhoodLoop(data, direction, maxDepth,
                              [visited |-> {}, visitedEdges |-> {},
                               queue |-> <<[id |-> query.nodeId, depth |-> 0]>>])
    IN  [nodes |-> SelectSeq(data.nodes, LAMBDA n : n.id \in w.visited),
         edges |-> SelectSeq(data.edges, LAMBDA e : e.id \in w.visitedEdges)]

\* sampleFrontier({graph, startNodeIds, maxNodes}) of the seeded fallbacks:
\* the loop of frontierSample, the ids returned in the order they were added.
sampleFrontier(params) ==
    LET w == FrontierLoop(params.graph, params.maxNodes, params.startNodeIds,
                          <<>>, <<>>)
    IN  [sampledNodeIds |-> w.visitedNodes, sampledEdgeIds |-> w.visitedEdges]

(***************************************************************************)
(* SpecTraversal: the two expansions on every graph, start node,           *)
(* direction, depth and limit of the universe below, and the two frontier  *)
(* samplings on every graph, list of start nodes and bound.                *)
(***************************************************************************)
MaxExpandDepth == 3
MaxExpandLimit == 3
MaxFrontierStarts == 2
MaxFrontierCount == 4

ExpandNodes == <<Node("n1", <<"A">>, NoProps), Node("n2", <<"A">>, NoProps),
                 Node("n3", <<"A">>, NoProps)>>

ExpandEdgesUniverse ==
    <<Edge("e1", "n1", "n2", "T", NoProps), Edge("e2", "n2", "n3", "T", NoProps),
      Edge("e3", "n3", "n1", "T", NoProps), Edge("e4", "n1", "n1", "T", NoProps),
      Edge("e5", "n1", "n3", "T", NoProps)>>

\* The three nodes with any of the edges, in the order above.
ExpandGraphs ==
    {[nodes |-> ExpandNodes,
      edges |-> SelectSeq(ExpandEdgesUniverse, LAMBDA e : e.id \in ids)] :
        ids \in SUBSET Ids(ExpandEdgesUniverse)}

Directions == {"outgoing", "incoming", "both"}

ExpandLimits == {<<>>} \cup {<<n>> : n \in 0..MaxExpandLimit}

TraversalInit ==
    /\ arg \in [fn : {"expandNode", "neighborhood"}, data : ExpandGraphs,
                nodeId : {"n1", "n2"}, direction : Directions,
                depth : 0..MaxExpandDepth, limit : ExpandLimits]
          \cup [fn : {"frontierSample", "sampleFrontier"}, data : ExpandGraphs,
                startNodeIds : SeqsUpTo(Ids(ExpandNodes), MaxFrontierStarts),
                maxNodes : 0..MaxFrontierCount]
    /\ ret = <<>>
    /\ call = [op |-> "none"]
    /\ IdleSession /\ IdleManager /\ IdleCache /\ IdleClock

\* MockConnector.handleExpandNode(nodeId, direction, depth, limit)
ExpandByExpandNode ==
    /\ call.op = "none" /\ arg.fn = "expandNode"
    /\ ret' = handleExpandNode(arg.data, arg.nodeId, arg.direction, arg.depth, arg.limit)
    /\ call' = [op |-> "expandNode"]
    /\ UNCHANGED <<arg, sessionVars, managerVars, cm, now>>

\* MockConnector.handleNeighborhoodQuery({nodeId, direction, depth, limit})
ExpandByNeighborhoodQuery ==
    /\ call.op = "none" /\ arg.fn = "neighborhood"
    /\ ret' = handleNeighborhoodQuery(arg.data,
                  [nodeId |-> arg.nodeId, direction |-> <<arg.direction>>,
                   depth |-> <<arg.depth>>, limit |-> arg.limit])
    /\ call' = [op |-> "neighborhood"]
    /\ UNCHANGED <<arg, sessionVars, managerVars, cm, now>>

\* frontierSample(data, startNodeIds, maxNodes): the nodes and edges sampled.
SampleByFrontierSample ==
    /\ call.op = "none" /\ arg.fn = "frontierSample"
    /\ ret' = frontierSample(arg.data, arg.startNodeIds, arg.maxNodes)
    /\ call' = [op |-> "frontierSample"]
    /\ UNCHANGED <<arg, sessionVars, managerVars, cm, now>>

\* sampleFrontier({graph, startNodeIds, maxNodes}): the ids sampled.
SampleBySampleFrontier ==
    /\ call.op = "none" /\ arg.fn = "sampleFrontier"
    /\ ret' = sampleFrontier([graph |-> arg.data, startNodeIds |-> arg.startNodeIds,
                              maxNodes |-> arg.maxNodes])
    /\ call' = [op |-> "sampleFrontier"]
    /\ UNCHANGED <<arg, sessionVars, managerVars, cm, now>>

TraversalNext ==
    \/ ExpandByExpandNode
    \/ ExpandByNeighborhoodQuery
    \/ SampleByFrontierSample
    \/ SampleBySampleFrontier

SpecTraversal == TraversalInit /\ [][TraversalNext]_vars

\* The ids one hop from the ids of S along the direction.
OneHop(data, S, direction) ==
    {e.target : e \in {x \in Range(data.edges) :
                          x.source \in S /\ direction \in {"outgoing", "both"}}}
    \cup {e.source : e \in {x \in Range(data.edges) :
                          x.target \in S /\ direction \in {"incoming", "both"}}}

\* The ids at most d hops from nodeId along the direction.
RECURSIVE WithinHops(_, _, _, _)
WithinHops(data, nodeId, direction, d) ==
    IF d = 0 THEN {nodeId}
    ELSE WithinHops(data, nodeId, direction, d - 1)
         \cup OneHop(data, WithinHops(data, nodeId, direction, d - 1), direction)

IsExpandCall == call.op \in {"expandNode", "neighborhood"}

HasLimit == arg.limit # <<>> /\ arg.limit[1] >= 1

\* C37: expandNode(nodeId, direction, depth, limit) returns each node at most
\* once and only nodes at most depth hops from nodeId along the direction;
\* with no limit it returns all of them, and with a limit of 1 or more it
\* returns at most limit nodes.
C37_ExpandWithinDepthAndLimit ==
    IsExpandCall =>
        /\ UniqueIds(ret.nodes)
        /\ Ids(ret.nodes) \subseteq
              WithinHops(arg.data, arg.nodeId, arg.direction, arg.depth)
        /\ arg.limit = <<>> =>
              Ids(ret.nodes) = WithinHops(arg.data, arg.nodeId, arg.direction, arg.depth)
                                  \cap Ids(arg.data.nodes)
        /\ HasLimit => Len(ret.nodes) <= arg.limit[1]

IsFrontierCall == call.op \in {"frontierSample", "sampleFrontier"}

\* The ids of the nodes a traversal returned, in the order returned.
ReturnedNodeIds ==
    IF call.op = "sampleFrontier" THEN ret.sampledNodeIds
    ELSE IF call.op = "frontierSample" THEN SeqMap(LAMBDA n : n.id, ret.sampledNodes)
    ELSE SeqMap(LAMBDA n : n.id, ret.nodes)

\* The start nodes and the nodes reachable from one over the undirected adjacency.
Reachable(data, startNodeIds) ==
    UNION {WithinHops(data, id, "both", Len(data.nodes)) : id \in Range(startNodeIds)}

\* C38: frontier sampling from start nodes with bound count (maxNodes) visits
\* at most count nodes, each of them a start node or reachable from one over
\* the undirected adjacency, and it returns exactly count nodes when that many
\* are reachable.
C38_FrontierWithinCountAndReach ==
    IsFrontierCall =>
        /\ Len(ReturnedNodeIds) <= arg.maxNodes
        /\ Cardinality(Range(ReturnedNodeIds)) = Len(ReturnedNodeIds)
        /\ Range(ReturnedNodeIds) \subseteq Reachable(arg.data, arg.startNodeIds)
        /\ Cardinality(Reachable(arg.data, arg.startNodeIds)) >= arg.maxNodes =>
              Len(ReturnedNodeIds) = arg.maxNodes

\* A sampling from n1 with bound 2 on a graph where n2 and n3 are both
\* reachable: two nodes are returned, the third is left out.
C38_Witness ==
    /\ IsFrontierCall
    /\ arg.startNodeIds = <<"n1">> /\ arg.maxNodes = 2
    /\ Cardinality(Reachable(arg.data, arg.startNodeIds)) = 3
    /\ Len(ReturnedNodeIds) = 2

\* The edges a traversal returned.
ReturnedEdges ==
    IF call.op = "sampleFrontier"
    THEN SelectSeq(arg.data.edges, LAMBDA e : e.id \in Range(ret.sampledEdgeIds))
    ELSE IF call.op = "frontierSample" THEN ret.sampledEdges
    ELSE ret.edges

\* C39: the sub-graph a traversal returns is closed: each edge returned by
\* expandNode, by the neighbourhood expansion and by frontier sampling has its
\* source and its target among the returned nodes, for every graph, depth,
\* limit and count.
C39_ReturnedSubgraphIsClosed ==
    (IsExpandCall \/ IsFrontierCall) =>
        \A e \in Range(ReturnedEdges) :
            e.source \in Range(ReturnedNodeIds) /\ e.target \in Range(ReturnedNodeIds)

\* AcceleratorClient.isAvailable()
isAvailable(client) == client.available

\* C40: when the binary is found, the process is spawned and it answers the
\* protocol.version request before the timeout, start() resolves true and
\* isAvailable() is true afterwards, so that the sampling calls that follow go
\* to the accelerator.
C40_StartMakesAvailable ==
    [][\A answer \in AcceleratorAnswers :
          (answer.kind = "result" /\ AcceleratorClient_start(TRUE, answer)) =>
              (call'.outcome = "true" /\ isAvailable(arg'))]_vars

====
